---- MODULE Spec2Model ----
(***************************************************************************)
(* Model of two subsystems of CUPS:                                        *)
(*   - backend/usb-libusb.c: the three-thread USB coordinator              *)
(*     (print_device, read_thread, sidechannel_thread, soft_reset);        *)
(*   - scheduler/main.c: the scheduler loop, the signal handlers, the      *)
(*     child reaper (process_children) and select_timeout.                 *)
(* Each subsystem has its own specification; the variables of the other    *)
(* subsystem stay at their initial values.                                 *)
(***************************************************************************)
EXTENDS Integers, Sequences, FiniteSets, TLC

(***************************************************************************)
(* Bounds of the model.                                                    *)
(***************************************************************************)
MaxJob == 2          \* bytes in the print job on print_fd
BufSize == 2         \* bytes one read() into print_buffer may return
MaxCopies == 1       \* largest value of the copies argument
MaxCmds == 2         \* side-channel commands the driver sends
MaxJobs == 1         \* jobs in the scheduler's job list
MaxPipe == 2         \* processes in a job's pipeline (the last is the backend)
MaxClients == 1      \* clients connected to the scheduler
MaxTime == 3         \* the clock runs from 0 to MaxTime
MaxHold == 2         \* deepest nesting of HoldSignals calls
Hour == 3600         \* seconds the idle scheduler is watched
MaxAge == 2          \* seconds between the first root certificate and the loop's start
MaxAlt == 2          \* alternate settings of the interface find_device looks at
MaxEndp == 3         \* endpoints of an alternate setting
MaxIface == 2        \* interfaces find_device visits

(***************************************************************************)
(* Program constants of the USB backend.                                   *)
(***************************************************************************)
CUPS_BACKEND_OK == 0
CUPS_BACKEND_FAILED == 1
WAIT_EOF == 0
STDIN_FILENO == 0

VARIABLES
  g,     \* usb_globals_t g: the fields shared by the three threads
  w,     \* print_device: the locals of the writer (main thread) and its position pc
  spc,   \* position of sidechannel_thread ("none" when it was not started)
  rpc,   \* position of read_thread
  env    \* environment of the backend: job input, side-channel socket, device

usbVars == <<g, w, spc, rpc, env>>

VARIABLES
  tin,   \* select_timeout: the scheduler state it is called in
  tout   \* select_timeout: the value it returned (-1 before the call)

toVars == <<tin, tout>>

VARIABLES
  sch,      \* scheduler/main.c: the globals and the locals of main's loop
  mpc,      \* position of main in its loop
  Clients,  \* the client list (NumClients is its length)
  Jobs,     \* the job list: state, procs[], status, status pipe
  kids,     \* the child processes of the scheduler, by pid
  now       \* the clock read by time(NULL)

schedVars == <<sch, mpc, Clients, Jobs, kids, now>>

VARIABLES
  hold      \* scheduler/main.c: holdcount, holdmask and the signal mask of the process

holdVars == <<hold>>

VARIABLES
  idle      \* scheduler/main.c: the idle loop, its clock and the root certificate

idleVars == <<idle>>

VARIABLES
  did      \* get_device_id: the reply in the caller's buffer and what the parse returned

devIdVars == <<did>>

VARIABLES
  fnd      \* find_device and open_device: one interface of a device, the scan and the open

findVars == <<fnd>>

VARIABLES
  pas      \* scheduler/main.c: one pass of main over a client and over the job list after select

passVars == <<pas>>

vars == <<usbVars, toVars, schedVars, holdVars, idleVars, devIdVars, findVars, passVars>>

notUsb == <<toVars, schedVars, holdVars, idleVars, devIdVars, findVars, passVars>>
notTo == <<usbVars, schedVars, holdVars, idleVars, devIdVars, findVars, passVars>>
notSched == <<usbVars, toVars, holdVars, idleVars, devIdVars, findVars, passVars>>
notHold == <<usbVars, toVars, schedVars, idleVars, devIdVars, findVars, passVars>>
notIdle == <<usbVars, toVars, schedVars, holdVars, devIdVars, findVars, passVars>>
notDevId == <<usbVars, toVars, schedVars, holdVars, idleVars, findVars, passVars>>
notFind == <<usbVars, toVars, schedVars, holdVars, idleVars, devIdVars, passVars>>
notPass == <<usbVars, toVars, schedVars, holdVars, idleVars, devIdVars, findVars>>

Min(a, b) == IF a < b THEN a ELSE b
Max(a, b) == IF a > b THEN a ELSE b

(***************************************************************************)
(* The job on print_fd is the byte sequence 1, 2, ..., jobLen; JobBytes    *)
(* is what a read() of n bytes at offset from returns.                     *)
(***************************************************************************)
JobBytes(from, n) == [i \in 1..n |-> from + i]

(***************************************************************************)
(* The side-channel commands the driver sends and the responses the        *)
(* backend writes with cupsSideChannelWrite (command, status).             *)
(***************************************************************************)
Commands == {"SOFT_RESET", "DRAIN_OUTPUT", "GET_DEVICE_ID", "GET_STATE", "OTHER"}

Responses == {<<"SOFT_RESET", "OK">>, <<"DRAIN_OUTPUT", "OK">>,
              <<"GET_STATE", "OK">>, <<"OTHER", "NOT_IMPLEMENTED">>}

Sent(e, r) == [e EXCEPT !.replies[r] = @ + 1]

(***************************************************************************)
(* The locals nfds, errno, input_set and timeout are dead once an          *)
(* iteration of the copy loop has used them (each is assigned again        *)
(* before its next use); they are reset there so that states that differ   *)
(* only in dead values coincide.                                           *)
(***************************************************************************)
EndIter(ww) == [ww EXCEPT !.nfds = 0, !.errno = "none", !.inset = FALSE,
                          !.timeout = "NULL"]

(***************************************************************************)
(* print_device up to the start of the copy loop (lines 181-269): the      *)
(* side-channel thread is started when CUPS_SC_FD is a socket, the read    *)
(* thread always; the writer starts out holding the I/O lock.              *)
(***************************************************************************)
NoId == [ret |-> 0, status |-> "none", datalen |-> 0]

NoXfer == [first |-> "none", retry |-> "none", bytes |-> 0]

UsbInit ==
  /\ \E hs \in BOOLEAN, fd \in {STDIN_FILENO, 3}, c \in 1..MaxCopies, len \in 0..MaxJob :
       /\ w = [pc |-> "copy", have_sidechannel |-> hs, print_fd |-> fd,
               copies |-> c, status |-> CUPS_BACKEND_OK, nfds |-> 0,
               errno |-> "none", inset |-> FALSE, timeout |-> "NULL", print_buffer |-> <<>>,
               print_ptr |-> 0, total_bytes |-> 0, retval |-> "none",
               xfer |-> NoXfer]
       /\ spc = IF hs THEN "idle" ELSE "none"
       /\ env = [jobLen |-> len,      \* length of the job on print_fd
                 inPos |-> 0,         \* bytes of the job consumed from print_fd
                 scOpen |-> hs,       \* CUPS_SC_FD is open
                 cmds |-> 0,          \* side-channel commands received so far
                 deviceOut |-> <<>>,  \* bytes the bulk-out endpoint received
                 readCount |-> 0,     \* bytes the writer read from print_fd
                 dropped |-> 0,       \* residue bytes soft_reset discarded
                 flushed |-> 0,       \* input bytes soft_reset read away
                 resets |-> 0,        \* libusb_reset_device calls
                 resetAt |-> 0,       \* job offset consumed when soft_reset last flushed
                                      \* in this pass over the job
                 lastId |-> NoId,     \* GET_DEVICE_ID of this round: fetch result, response
                 replies |-> [r \in Responses |-> 0]]  \* side-channel responses written
  /\ g = [readwrite_lock |-> 1, print_bytes |-> 0, drain_output |-> 0,
          wait_eof |-> WAIT_EOF,
          sidechannel_thread_stop |-> 0, sidechannel_thread_done |-> 0,
          read_thread_stop |-> 0, read_thread_done |-> 0,
          handle |-> TRUE]
  /\ rpc = "xfer"

(***************************************************************************)
(* close_device as far as the coordinator is concerned: the handle is      *)
(* closed and set to NULL.                                                 *)
(***************************************************************************)
close_device_Leak(gg) == gg

close_device(gg) == [gg EXCEPT !.handle = FALSE]

(***************************************************************************)
(* print_device, lines 271-279: head of the copy loop.                     *)
(***************************************************************************)
WCopy ==
  /\ w.pc = "copy"
  /\ IF w.status = CUPS_BACKEND_OK /\ w.copies > 0
       THEN /\ w' = [w EXCEPT !.pc = "top", !.copies = @ - 1, !.xfer = NoXfer]
            /\ env' = IF w.print_fd # STDIN_FILENO
                        THEN [env EXCEPT !.inPos = 0,     \* lseek(print_fd, 0)
                                         !.resetAt = 0]
                        ELSE env
       ELSE /\ w' = [w EXCEPT !.pc = IF w.have_sidechannel THEN "sd_close"
                                                            ELSE "sd_readstop",
                              !.xfer = NoXfer]
            /\ env' = env
  /\ UNCHANGED <<notUsb, g, spc, rpc>>

(***************************************************************************)
(* The timeout of the select at line 319 as chosen in lines 295-308.       *)
(***************************************************************************)
SelectTimeout(pb, drain) ==
  IF pb # 0 THEN "100ms" ELSE IF drain # 0 THEN "0" ELSE "NULL"

(***************************************************************************)
(* Lines 281-317: build input_set and the timeout, then release the I/O    *)
(* lock (readwrite_lock = 0 under readwrite_lock_mutex).                   *)
(***************************************************************************)
WTop ==
  /\ w.pc = "top"
  /\ w' = [w EXCEPT !.pc = "select", !.inset = (g.print_bytes = 0),
                    !.xfer = NoXfer,
                    !.timeout = SelectTimeout(g.print_bytes, g.drain_output)]
  /\ g' = [g EXCEPT !.readwrite_lock = 0]
  /\ UNCHANGED <<notUsb, spc, rpc, env>>

(***************************************************************************)
(* Line 319: select(print_fd + 1, &input_set, NULL, NULL, timeout).        *)
(* It returns 1 with print_fd left in the set (data or end of file), 0     *)
(* with the set emptied when the timeout expires (never with a NULL        *)
(* timeout), or -1 with errno set and the set unmodified.                  *)
(***************************************************************************)
SelectErrnos == {"EINTR", "EAGAIN", "EBADF"}

WSelect ==
  /\ w.pc = "select"
  /\ \/ /\ w.inset
        /\ w' = [w EXCEPT !.pc = "reacq", !.nfds = 1]
     \/ /\ w.timeout # "NULL"
        /\ w' = [w EXCEPT !.pc = "reacq", !.nfds = 0, !.inset = FALSE]
     \/ \E e \in SelectErrnos :
          w' = [w EXCEPT !.pc = "reacq", !.nfds = -1, !.errno = e]
  /\ UNCHANGED <<notUsb, g, spc, rpc, env>>

(***************************************************************************)
(* Lines 325-329: reacquire the I/O lock: wait on the condition while      *)
(* readwrite_lock is set, then set it.                                     *)
(***************************************************************************)
WriterMayLock_NoWait(gg) == TRUE

WriterMayLock(gg) == gg.readwrite_lock = 0

WReacquire ==
  /\ w.pc = "reacq"
  /\ WriterMayLock(g)
  /\ g' = [g EXCEPT !.readwrite_lock = 1]
  /\ w' = [w EXCEPT !.pc = "check"]
  /\ UNCHANGED <<notUsb, spc, rpc, env>>

(***************************************************************************)
(* Lines 331-359: select errors (two early returns through close_device)   *)
(* and the deferred DRAIN_OUTPUT response.                                 *)
(***************************************************************************)
DrainDone_AnyNfds(gg, ww) == gg.drain_output # 0 /\ gg.print_bytes = 0

DrainDone(gg, ww) == gg.drain_output # 0 /\ ww.nfds = 0 /\ gg.print_bytes = 0

WCheck ==
  /\ w.pc = "check"
  /\ IF w.nfds < 0 /\ w.errno = "EINTR" /\ w.total_bytes = 0
       THEN /\ g' = close_device(g)
            /\ w' = [w EXCEPT !.pc = "done", !.retval = CUPS_BACKEND_OK]
            /\ env' = env
       ELSE IF w.nfds < 0 /\ w.errno \notin {"EAGAIN", "EINTR"}
       THEN /\ g' = close_device(g)
            /\ w' = [w EXCEPT !.pc = "done", !.retval = CUPS_BACKEND_FAILED]
            /\ env' = env
       ELSE IF DrainDone(g, w)
       THEN /\ g' = [g EXCEPT !.drain_output = 0]
            /\ env' = Sent(env, <<"DRAIN_OUTPUT", "OK">>)
            /\ w' = [w EXCEPT !.pc = "read"]
       ELSE /\ w' = [w EXCEPT !.pc = "read"]
            /\ UNCHANGED <<notUsb, g, env>>
  /\ UNCHANGED <<notUsb, spc, rpc>>

(***************************************************************************)
(* Lines 365-399: read(print_fd, print_buffer, sizeof(print_buffer)) when  *)
(* print_fd is in input_set.  The read returns 1..BufSize bytes of the     *)
(* job, 0 at end of file (break), or -1: EAGAIN/EINTR leave an empty       *)
(* buffer, any other errno returns FAILED through close_device.            *)
(***************************************************************************)
ReadErrnos == {"EAGAIN", "EINTR", "EIO"}

WRead ==
  /\ w.pc = "read"
  /\ IF ~w.inset
       THEN /\ w' = [w EXCEPT !.pc = "write"]
            /\ UNCHANGED <<notUsb, g, env>>
       ELSE \/ /\ env.inPos < env.jobLen
               /\ \E n \in 1..Min(BufSize, env.jobLen - env.inPos) :
                    /\ g' = [g EXCEPT !.print_bytes = n]
                    /\ w' = [w EXCEPT !.pc = "write", !.print_ptr = 0,
                                      !.print_buffer = JobBytes(env.inPos, n)]
                    /\ env' = [env EXCEPT !.inPos = @ + n, !.readCount = @ + n]
            \/ /\ env.inPos = env.jobLen
               /\ g' = [g EXCEPT !.print_bytes = 0]
               /\ w' = EndIter([w EXCEPT !.pc = "copy"])
               /\ env' = env
            \/ \E e \in ReadErrnos :
                 IF e \notin {"EAGAIN", "EINTR"}
                   THEN /\ g' = close_device([g EXCEPT !.print_bytes = -1])
                        /\ w' = [w EXCEPT !.pc = "done",
                                          !.retval = CUPS_BACKEND_FAILED]
                        /\ env' = env
                   ELSE /\ g' = [g EXCEPT !.print_bytes = 0]
                        /\ w' = [w EXCEPT !.pc = "write", !.print_ptr = 0]
                        /\ env' = env
  /\ UNCHANGED <<notUsb, spc, rpc>>
(***************************************************************************)
(* libusb_bulk_transfer on the bulk-out endpoint with len bytes: success   *)
(* (short or full), a timeout that may have moved part of the data, or an  *)
(* error (stall, interrupted, other) that moved none.                      *)
(***************************************************************************)
BulkOut(len) ==
  {[ios |-> "OK", bytes |-> k] : k \in 1..len} \cup
  {[ios |-> "TIMEOUT", bytes |-> k] : k \in 0..(len - 1)} \cup
  {[ios |-> e, bytes |-> 0] : e \in {"PIPE", "INTERRUPTED", "IO"}}

(***************************************************************************)
(* The bytes handed to libusb_bulk_transfer at lines 403-406, 426-429 and  *)
(* 441-444: print_bytes bytes starting at print_buffer (not at print_ptr). *)
(***************************************************************************)
TransferData(ww, gg) == SubSeq(ww.print_buffer, 1, gg.print_bytes)

(***************************************************************************)
(* Lines 412-445: the status the writer acts on after the first transfer   *)
(* result: a timeout becomes 0 (OK), a stall or an interrupted transfer    *)
(* is retried once and the retry's result stands as it is.                 *)
(***************************************************************************)
Retried_PipeOnly(first) == first.ios = "PIPE"

Retried(first) == first.ios \in {"PIPE", "INTERRUPTED"}

FirstStatus_Raw(first) == first.ios

FirstStatus(first) == IF first.ios = "TIMEOUT" THEN "OK" ELSE first.ios

(***************************************************************************)
(* Line 466: g.print_bytes -= bytes.                                       *)
(***************************************************************************)
Residue_NoSub(pb, bytes) == pb

Residue(pb, bytes) == pb - bytes

(***************************************************************************)
(* Lines 401-470: send the buffer and account for the bytes written.       *)
(* xfer keeps what libusb_bulk_transfer returned on the first attempt and  *)
(* on the retry (iostatus, bytes) until the next iteration begins.         *)
(***************************************************************************)
WFinish(final, sent, x) ==
  /\ env' = [env EXCEPT !.deviceOut = @ \o sent]
  /\ IF final.ios # "OK"
       THEN /\ w' = EndIter([w EXCEPT !.pc = "copy", !.status = CUPS_BACKEND_FAILED,
                                      !.xfer = x])
            /\ g' = g
       ELSE /\ w' = EndIter([w EXCEPT !.pc = "top", !.xfer = x,
                                      !.print_ptr = @ + final.bytes,
                                      !.total_bytes = @ + final.bytes])
            /\ g' = [g EXCEPT !.print_bytes = Residue(@, final.bytes)]

WWrite ==
  /\ w.pc = "write"
  /\ IF g.print_bytes = 0
       THEN /\ w' = EndIter([w EXCEPT !.pc = "top"])
            /\ UNCHANGED <<notUsb, g, env>>
       ELSE \E first \in BulkOut(g.print_bytes) :
              LET data == TransferData(w, g) IN
              IF Retried(first)
                THEN \E second \in BulkOut(g.print_bytes) :
                       WFinish(second, SubSeq(data, 1, first.bytes) \o
                                       SubSeq(data, 1, second.bytes),
                               [first |-> first.ios, retry |-> second.ios,
                                bytes |-> second.bytes])
                ELSE WFinish([ios |-> FirstStatus(first), bytes |-> first.bytes],
                             SubSeq(data, 1, first.bytes),
                             [first |-> first.ios, retry |-> "none",
                              bytes |-> first.bytes])
  /\ UNCHANGED <<notUsb, spc, rpc>>

(***************************************************************************)
(* Lines 485-512: stop the side-channel thread: close CUPS_SC_FD, release  *)
(* the I/O lock, set the stop flag, wait up to WAIT_SIDE_DELAY seconds.    *)
(***************************************************************************)
WSdClose_KeepLock ==
  /\ w.pc = "sd_close"
  /\ env' = [env EXCEPT !.scOpen = FALSE]
  /\ g' = g
  /\ w' = [w EXCEPT !.pc = "sd_sidestop"]
  /\ UNCHANGED <<notUsb, spc, rpc>>

WSdClose ==
  /\ w.pc = "sd_close"
  /\ env' = [env EXCEPT !.scOpen = FALSE]
  /\ g' = [g EXCEPT !.readwrite_lock = 0]
  /\ w' = [w EXCEPT !.pc = "sd_sidestop"]
  /\ UNCHANGED <<notUsb, spc, rpc>>

WSdSideStop ==
  /\ w.pc = "sd_sidestop"
  /\ g' = [g EXCEPT !.sidechannel_thread_stop = 1]
  /\ w' = [w EXCEPT !.pc = "sd_sidewait"]
  /\ UNCHANGED <<notUsb, spc, rpc, env>>

\* lines 496-509, 526-537, 550-560: pthread_cond_timedwait in a loop on the done
\* flag: the wait is over when the flag is set, or with the flag clear when the
\* deadline has passed
TimedWaitOver_Untimed(done) == done = 1

TimedWaitOver(done) == done \in {0, 1}

\* the wait ends when sidechannel_thread_done is set or the deadline passes
WSdSideWait ==
  /\ w.pc = "sd_sidewait"
  /\ TimedWaitOver(g.sidechannel_thread_done)
  /\ w' = [w EXCEPT !.pc = "sd_readstop"]
  /\ UNCHANGED <<notUsb, g, spc, rpc, env>>

(***************************************************************************)
(* Lines 518-561: stop the read thread: set the stop flag, wait up to      *)
(* WAIT_EOF_DELAY seconds, then clear wait_eof and wait one more second.   *)
(***************************************************************************)
\* line 518 moved in front of the side-channel shutdown
WSdReadStop_First ==
  /\ w.pc \in {"sd_close", "sd_readstop"}
  /\ g' = [g EXCEPT !.read_thread_stop = 1]
  /\ w' = [w EXCEPT !.pc = "sd_readwait"]
  /\ UNCHANGED <<notUsb, spc, rpc, env>>

WSdReadStop ==
  /\ w.pc = "sd_readstop"
  /\ g' = [g EXCEPT !.read_thread_stop = 1]
  /\ w' = [w EXCEPT !.pc = "sd_readwait"]
  /\ UNCHANGED <<notUsb, spc, rpc, env>>

WSdReadWait ==
  /\ w.pc = "sd_readwait"
  /\ TimedWaitOver(g.read_thread_done)
  /\ IF g.read_thread_done = 1
       THEN /\ w' = [w EXCEPT !.pc = "close"]
            /\ g' = g
       ELSE \* the 7 second deadline passed with the reader still running
            /\ g' = [g EXCEPT !.wait_eof = 0]
            /\ w' = [w EXCEPT !.pc = "sd_readwait1"]
  /\ UNCHANGED <<notUsb, spc, rpc, env>>

\* the wait ends when read_thread_done is set or the deadline passes
WSdReadWait1 ==
  /\ w.pc = "sd_readwait1"
  /\ TimedWaitOver(g.read_thread_done)
  /\ w' = [w EXCEPT !.pc = "close"]
  /\ UNCHANGED <<notUsb, g, spc, rpc, env>>

(***************************************************************************)
(* Lines 563-579: close print_fd and the device, return status.            *)
(***************************************************************************)
WClose ==
  /\ w.pc = "close"
  /\ g' = close_device(g)
  /\ w' = [w EXCEPT !.pc = "done", !.retval = w.status]
  /\ UNCHANGED <<notUsb, spc, rpc, env>>

Writer ==
  \/ WCopy \/ WTop \/ WSelect \/ WReacquire \/ WCheck \/ WRead \/ WWrite
  \/ WSdClose \/ WSdSideStop \/ WSdSideWait
  \/ WSdReadStop \/ WSdReadWait \/ WSdReadWait1 \/ WClose
(***************************************************************************)
(* sidechannel_thread, lines 1417-1427 and 1441-1522: read one command     *)
(* with a 1 second budget.  A timeout continues with the loop condition,   *)
(* any other failure leaves the loop; once CUPS_SC_FD is closed the read   *)
(* can only fail.                                                          *)
(***************************************************************************)
SReply(c) == IF c = "GET_STATE" THEN <<c, "OK">> ELSE <<c, "NOT_IMPLEMENTED">>

(***************************************************************************)
(* get_device_id, lines 818-879: -1 with an empty buffer when the control  *)
(* transfer fails or the reported length is below 14, else 0 with the      *)
(* device ID text (the length less its 2 length bytes) in the buffer.      *)
(***************************************************************************)
MinIdLen == 14 - 2

get_device_id == {[ret |-> -1, len |-> 0], [ret |-> 0, len |-> MinIdLen]}

(***************************************************************************)
(* Lines 1463-1475: the GET_DEVICE_ID response.  The local status is set   *)
(* to IO_ERROR or OK but the write at line 1475 passes CUPS_SC_STATUS_OK.  *)
(***************************************************************************)
DeviceIdReply(r) ==
  [ret |-> r.ret, status |-> "OK", datalen |-> IF r.ret # 0 THEN 0 ELSE r.len]

SRead ==
  /\ spc = "idle"
  /\ \/ /\ env.scOpen /\ env.cmds < MaxCmds
        /\ \E c \in Commands :
             /\ spc' = IF c = "SOFT_RESET" THEN "sr_wait" ELSE "loopcheck"
             /\ g' = IF c = "DRAIN_OUTPUT" THEN [g EXCEPT !.drain_output = 1] ELSE g
             /\ IF c \in {"SOFT_RESET", "DRAIN_OUTPUT"}
                  THEN env' = [env EXCEPT !.cmds = @ + 1]
                  ELSE IF c = "GET_DEVICE_ID"
                  THEN \E r \in get_device_id :
                         env' = [env EXCEPT !.cmds = @ + 1,
                                            !.lastId = DeviceIdReply(r)]
                  ELSE env' = Sent([env EXCEPT !.cmds = @ + 1], SReply(c))
     \/ /\ env.scOpen           \* CUPS_SC_STATUS_TIMEOUT: continue
        /\ spc' = "loopcheck"
        /\ UNCHANGED <<notUsb, g, env>>
     \/ /\ spc' = "exit"        \* any other read failure: break
        /\ UNCHANGED <<notUsb, g, env>>
  /\ UNCHANGED <<notUsb, w, rpc>>

(***************************************************************************)
(* soft_reset, lines 1551-1568: wait (in 1 second rounds) until the I/O    *)
(* lock is free, then take it.                                             *)
(***************************************************************************)
ResetMayLock_NoWait(gg) == TRUE

ResetMayLock(gg) == gg.readwrite_lock = 0

SResetLock ==
  /\ spc = "sr_wait"
  /\ ResetMayLock(g)
  /\ g' = [g EXCEPT !.readwrite_lock = 1]
  /\ spc' = "sr_flush"
  /\ UNCHANGED <<notUsb, w, rpc, env>>

(***************************************************************************)
(* soft_reset, lines 1574-1584: drop the writer's residue and read away    *)
(* whatever input is waiting on print_fd.                                  *)
(***************************************************************************)
ResetResidue_Keep(pb) == pb

ResetResidue(pb) == 0

SResetFlush ==
  /\ spc = "sr_flush"
  /\ \E k \in 0..(env.jobLen - env.inPos) :
       env' = [env EXCEPT !.inPos = @ + k, !.flushed = @ + k,
                          !.resetAt = env.inPos + k,
                          !.dropped = @ + Max(g.print_bytes, 0)]
  /\ g' = [g EXCEPT !.print_bytes = ResetResidue(@)]
  /\ spc' = "sr_reset"
  /\ UNCHANGED <<notUsb, w, rpc>>

\* soft_reset, line 1590: libusb_reset_device
SResetDevice ==
  /\ spc = "sr_reset"
  /\ env' = [env EXCEPT !.resets = @ + 1]
  /\ spc' = "sr_release"
  /\ UNCHANGED <<notUsb, g, w, rpc>>

\* soft_reset, lines 1596-1599: release the I/O lock
ReleaseLock_Keep(gg) == gg

ReleaseLock(gg) == [gg EXCEPT !.readwrite_lock = 0]

SResetRelease ==
  /\ spc = "sr_release"
  /\ g' = ReleaseLock(g)
  /\ spc' = "sr_reply"
  /\ UNCHANGED <<notUsb, w, rpc, env>>

\* sidechannel_thread, line 1436: the response to SOFT_RESET
SResetReply ==
  /\ spc = "sr_reply"
  /\ env' = Sent(env, <<"SOFT_RESET", "OK">>)
  /\ spc' = "loopcheck"
  /\ UNCHANGED <<notUsb, g, w, rpc>>

\* sidechannel_thread, line 1524: while (!g.sidechannel_thread_stop)
SLoopCheck ==
  /\ spc = "loopcheck"
  /\ spc' = IF g.sidechannel_thread_stop = 0 THEN "idle" ELSE "exit"
  /\ env' = [env EXCEPT !.lastId = NoId]
  /\ UNCHANGED <<notUsb, g, w, rpc>>

\* sidechannel_thread, lines 1526-1531
SExit ==
  /\ spc = "exit"
  /\ g' = [g EXCEPT !.sidechannel_thread_done = 1]
  /\ spc' = "done"
  /\ UNCHANGED <<notUsb, w, rpc, env>>

SideChannel ==
  \/ SRead \/ SResetLock \/ SResetFlush \/ SResetDevice \/ SResetRelease
  \/ SResetReply \/ SLoopCheck \/ SExit

(***************************************************************************)
(* read_thread, lines 1340-1399: one bulk-in transfer per round, with the  *)
(* sleep that fills the round up to 250 ms when the transfer brought       *)
(* nothing, then the loop condition; the thread never touches              *)
(* readwrite_lock.                                                         *)
(***************************************************************************)
BulkIn ==
  {[ios |-> "OK", bytes |-> k] : k \in 0..1} \cup
  {[ios |-> e, bytes |-> 0] : e \in {"TIMEOUT", "PIPE", "INTERRUPTED", "IO"}}

\* lines 1378 and 1387: g.wait_eof || !g.read_thread_stop
ReaderContinues_SideFlag(gg) == gg.wait_eof # 0 \/ gg.sidechannel_thread_stop = 0

ReaderContinues(gg) == gg.wait_eof # 0 \/ gg.read_thread_stop = 0

RXfer ==
  /\ rpc = "xfer"
  /\ \E r \in BulkIn : rpc' = "loopcheck"
  /\ UNCHANGED <<notUsb, g, w, spc, env>>

RLoopCheck ==
  /\ rpc = "loopcheck"
  /\ rpc' = IF ReaderContinues(g) THEN "xfer" ELSE "exit"
  /\ UNCHANGED <<notUsb, g, w, spc, env>>

RExit ==
  /\ rpc = "exit"
  /\ g' = [g EXCEPT !.read_thread_done = 1]
  /\ rpc' = "done"
  /\ UNCHANGED <<notUsb, w, spc, env>>

Reader == RXfer \/ RLoopCheck \/ RExit

UsbNext == Writer \/ SideChannel \/ Reader

(***************************************************************************)
(* scheduler/main.c, select_timeout (lines 1441-1596).                     *)
(*                                                                         *)
(* IPP job states (job->state->values[0].integer).                         *)
(***************************************************************************)
IPP_JOB_PENDING == 3
IPP_JOB_HELD == 4
IPP_JOB_PROCESSING == 5
IPP_JOB_STOPPED == 6
IPP_JOB_CANCELLED == 7
IPP_JOB_ABORTED == 8
IPP_JOB_COMPLETED == 9

DAY == 86400            \* line 1484: one day
MANY_CLIENTS == 50      \* line 1467
JOB_POLL == 10          \* line 1540: active jobs are looked at every 10 s
MALLINFO_POLL == 60     \* line 1556

\* lines 1457-1459: some client has buffered data (con->http.used > 0)
HasBuffered(cl) == \E i \in 1..Len(cl) : cl[i].used > 0

\* lines 1491-1496: the loop over Clients ("if (x < timeout) timeout = x")
RECURSIVE ClientDeadline(_, _, _)
ClientDeadline(cl, tmo, t) ==
  IF cl = <<>> THEN t
  ELSE ClientDeadline(Tail(cl), tmo,
                      IF Head(cl).activity + tmo < t
                        THEN Head(cl).activity + tmo ELSE t)

\* lines 1514-1532: the loop over Printers
RECURSIVE PrinterDeadline(_, _, _)
PrinterDeadline(ps, b, t) ==
  IF ps = <<>> THEN t
  ELSE LET p == Head(ps)
           t1 == IF p.remote
                   THEN IF p.browse_cups /\ p.browse_time + b.BrowseTimeout < t
                          THEN p.browse_time + b.BrowseTimeout ELSE t
                   ELSE IF ~p.implicit
                     THEN IF b.BrowseInterval # 0 /\ p.browse_time + b.BrowseInterval < t
                            THEN p.browse_time + b.BrowseInterval ELSE t
                     ELSE t
       IN PrinterDeadline(Tail(ps), b, t1)

\* lines 1502-1534: browsing (b.slp: built with HAVE_LIBSLP and SLP is a remote protocol)
BrowseDeadline(b, ps, t) ==
  IF b.Browsing /\ (b.local \/ b.remote)
    THEN LET t1 == IF b.slp /\ b.BrowseSLPRefresh < t THEN b.BrowseSLPRefresh ELSE t
         IN IF b.cups THEN PrinterDeadline(ps, b, t1) ELSE t1
    ELSE t

\* lines 1540-1549: jobs in a state <= IPP_JOB_PROCESSING
JobDeadline_NoHeld(jobs, t0, t) ==
  IF t > t0 + JOB_POLL /\ \E i \in 1..Len(jobs) : jobs[i] \in {IPP_JOB_PENDING, IPP_JOB_PROCESSING}
    THEN t0 + JOB_POLL ELSE t

JobDeadline(jobs, t0, t) ==
  IF t > t0 + JOB_POLL /\ \E i \in 1..Len(jobs) : jobs[i] <= IPP_JOB_PROCESSING
    THEN t0 + JOB_POLL ELSE t

\* lines 1556-1560 (built with HAVE_MALLINFO and LogLevel >= L_DEBUG)
MallinfoDeadline(m, t) ==
  IF m.on /\ m.mallinfo_time + MALLINFO_POLL < t THEN m.mallinfo_time + MALLINFO_POLL ELSE t

\* lines 1567-1571
CertDeadline(c, t) ==
  IF c.RootCertDuration # 0 /\ c.RootCertTime + c.RootCertDuration < t
    THEN c.RootCertTime + c.RootCertDuration ELSE t

\* lines 1584-1587
Clamp_NoFloor(t) == IF t > DAY THEN DAY ELSE t

Clamp(t) == IF t < 1 THEN 1 ELSE IF t > DAY THEN DAY ELSE t

\* lines 1483-1571: the absolute time of the earliest event
Deadline(si) ==
  CertDeadline(si.cert,
    MallinfoDeadline(si.mallinfo,
      JobDeadline(si.jobs, si.now,
        BrowseDeadline(si.browse, si.printers,
          ClientDeadline(si.clients, si.Timeout, si.now + DAY)))))

select_timeout_NoSlack(fds, si) ==
  IF HasBuffered(si.clients) THEN 0
  ELSE IF fds # 0 \/ Len(si.clients) > MANY_CLIENTS THEN 1
  ELSE IF si.NotifyPost # 0 THEN 1
  ELSE Clamp(Deadline(si) - si.now)

select_timeout(fds, si) ==
  IF HasBuffered(si.clients) THEN 0
  ELSE IF fds # 0 \/ Len(si.clients) > MANY_CLIENTS THEN 1
  ELSE IF si.NotifyPost # 0 THEN 1
  ELSE Clamp(Deadline(si) - si.now + 1)

(***************************************************************************)
(* The scheduler states select_timeout is called in.  Times are seconds    *)
(* around NowT; Timeout is the client idle timeout (conf default 300).     *)
(***************************************************************************)
NowT == 100000

ClientKinds(t0) == {[activity |-> a, used |-> u] : a \in {t0 - 400, t0 - 10}, u \in {0, 1}}

ClientLists(t0) ==
  {<<>>} \cup {<<c>> : c \in ClientKinds(t0)}
         \cup {<<c, d>> : c \in ClientKinds(t0), d \in ClientKinds(t0)}
         \cup {[i \in 1..(MANY_CLIENTS + 1) |-> c] : c \in ClientKinds(t0)}

BrowseConfigs(t0) ==
  {[Browsing |-> FALSE, local |-> FALSE, remote |-> FALSE, cups |-> FALSE, slp |-> FALSE,
    BrowseSLPRefresh |-> 0, BrowseTimeout |-> 300, BrowseInterval |-> 30]} \cup
  {[Browsing |-> TRUE, local |-> TRUE, remote |-> TRUE, cups |-> TRUE, slp |-> sl,
    BrowseSLPRefresh |-> t0 + 5, BrowseTimeout |-> 300, BrowseInterval |-> bi]
     : sl \in BOOLEAN, bi \in {0, 30}}

PrinterLists(t0) ==
  {<<>>} \cup
  {<<[remote |-> r, implicit |-> FALSE, browse_cups |-> TRUE, browse_time |-> bt]>>
     : r \in BOOLEAN, bt \in {0, t0 - 3}} \cup
  {<<[remote |-> FALSE, implicit |-> TRUE, browse_cups |-> TRUE, browse_time |-> 0]>>}

JobLists ==
  {<<>>} \cup {<<st>> : st \in {IPP_JOB_PENDING, IPP_JOB_HELD, IPP_JOB_PROCESSING,
                               IPP_JOB_STOPPED, IPP_JOB_CANCELLED, IPP_JOB_ABORTED,
                               IPP_JOB_COMPLETED}}

TimeoutInputs ==
  [now : {NowT},
   fds : {0, 1},
   clients : ClientLists(NowT),
   Timeout : {300},
   NotifyPost : {0, 1},
   browse : BrowseConfigs(NowT),
   printers : PrinterLists(NowT),
   jobs : JobLists,
   mallinfo : {[on |-> FALSE, mallinfo_time |-> 0], [on |-> TRUE, mallinfo_time |-> NowT - 2]},
   cert : {[RootCertDuration |-> 0, RootCertTime |-> NowT],
           [RootCertDuration |-> 300, RootCertTime |-> NowT - 400],
           [RootCertDuration |-> 300, RootCertTime |-> NowT - 5]}]

ToInit == tin \in TimeoutInputs /\ tout = -1

\* main, line 596: timeout.tv_sec = select_timeout(fds)
ToCall ==
  /\ tout = -1
  /\ tout' = select_timeout(tin.fds, tin)
  /\ UNCHANGED <<notTo, tin>>

ToNext == ToCall

(***************************************************************************)
(* scheduler/main.c: the loop of main (lines 515-936), the signal          *)
(* handlers and process_children.  The scheduler modelled here runs with   *)
(* Browsing off, RootCertDuration 0 and no pending notification.           *)
(***************************************************************************)
RELOAD_NONE == 0
RELOAD_ALL == 1
RELOAD_CUPSD == 2
SIGTERM == 15
ReloadTimeout == 2      \* seconds a pending reload waits for clients and jobs
Timeout == 2            \* seconds of inactivity after which a client is closed

(***************************************************************************)
(* How a child ends, and the status word waitpid reports for it: the exit  *)
(* code in bits 8-15, or the number of the signal that killed it.  Nothing *)
(* reads the status before waitpid returns it, so it is drawn there.       *)
(***************************************************************************)
Endings == {[kind |-> "exit", n |-> 0], [kind |-> "exit", n |-> 2],
            [kind |-> "signal", n |-> SIGTERM]}

WaitStatus(e) == IF e.kind = "exit" THEN e.n * 256 ELSE e.n

\* the pid of the process in slot i of job j's pipeline
Pid(j, i) == 10 * j + i

\* one printer: job 1 is printing through a pipeline of MaxPipe processes, the
\* jobs behind it in the queue are pending and have no processes yet
PipeLen(j) == IF j = 1 THEN MaxPipe ELSE 0

StartPids == UNION {{Pid(j, i) : i \in 1..PipeLen(j)} : j \in 1..MaxJobs}

SchedInit ==
  /\ \E ru \in BOOLEAN :
       sch = [dead_children |-> 0, stop_scheduler |-> 0,
              NeedReload |-> RELOAD_NONE, ReloadTime |-> 0,
              RunAsUser |-> ru,
              fds |-> 1,            \* line 513
              paused |-> FALSE,     \* PauseListening is in effect
              wake |-> 0,           \* when the timeout of the current select ends
              intr |-> FALSE,       \* a signal was caught during the current select
              retcode |-> -1]       \* value returned by main
  /\ mpc = "while"
  /\ Clients \in UNION {[1..n -> [state : {"WAITING", "BUSY"}, keep_alive : {TRUE},
                                  activity : {0}, used : {0}]] : n \in 0..MaxClients}
  /\ Jobs = [j \in 1..MaxJobs |->
               [state |-> IF j = 1 THEN IPP_JOB_PROCESSING ELSE IPP_JOB_PENDING,
                procs |-> [i \in 1..PipeLen(j) |-> Pid(j, i)],
                status |-> 0, pipe |-> (j = 1)]]
  /\ kids = [p \in StartPids |-> "run"]
  /\ now = 0

Running == mpc \notin {"stopped", "off"}

Caught(ss) == IF mpc = "select" THEN [ss EXCEPT !.intr = TRUE] ELSE ss

(***************************************************************************)
(* The signal handlers (lines 1380-1433) and the installation of           *)
(* sigterm_handler for SIGHUP when RunAsUser is set (lines 381-417).       *)
(***************************************************************************)
sigchld_handler_NoLatch(ss) == ss

sigchld_handler(ss) == [ss EXCEPT !.dead_children = 1]

sighup_handler(ss) == [ss EXCEPT !.NeedReload = RELOAD_ALL, !.ReloadTime = now]

sigterm_handler(ss) == [ss EXCEPT !.stop_scheduler = 1]

\* a child ends: it becomes a zombie and SIGCHLD is delivered
ChildExit ==
  /\ Running
  /\ \E p \in DOMAIN kids :
       /\ kids[p] = "run"
       /\ kids' = [kids EXCEPT ![p] = "zombie"]
  /\ sch' = sigchld_handler(Caught(sch))
  /\ UNCHANGED <<notSched, mpc, Clients, Jobs, now>>

SigHup ==
  /\ Running
  /\ now + ReloadTimeout <= MaxTime
  /\ sch' = IF sch.RunAsUser THEN sigterm_handler(Caught(sch))
                             ELSE sighup_handler(Caught(sch))
  /\ UNCHANGED <<notSched, mpc, Clients, Jobs, kids, now>>

SigTerm ==
  /\ Running
  /\ sch' = sigterm_handler(Caught(sch))
  /\ UNCHANGED <<notSched, mpc, Clients, Jobs, kids, now>>

\* a second passes; the loop's own steps take no time, select does
Tick ==
  /\ mpc = "select"
  /\ now < MaxTime
  /\ now' = now + 1
  /\ UNCHANGED <<notSched, sch, mpc, Clients, Jobs, kids>>

(***************************************************************************)
(* main, line 515: while (!stop_scheduler); lines 938-992 after the loop.  *)
(***************************************************************************)
MWhile ==
  /\ mpc = "while"
  /\ IF sch.stop_scheduler # 0
       THEN /\ mpc' = "stopped"
            /\ sch' = [sch EXCEPT !.retcode = 0]
       ELSE /\ mpc' = "children"
            /\ sch' = sch
  /\ UNCHANGED <<notSched, Clients, Jobs, kids, now>>

(***************************************************************************)
(* main, lines 534-535, and process_children, line 1271.                   *)
(***************************************************************************)
MChildren ==
  /\ mpc = "children"
  /\ IF sch.dead_children # 0
       THEN /\ sch' = [sch EXCEPT !.dead_children = 0]
            /\ mpc' = "wait"
       ELSE /\ sch' = sch
            /\ mpc' = "reload"
  /\ UNCHANGED <<notSched, Clients, Jobs, kids, now>>

(***************************************************************************)
(* process_children, lines 1278-1372: one waitpid(-1, &status, WNOHANG)    *)
(* and the handling of the pid it returns.                                 *)
(***************************************************************************)
\* lines 1291-1292
ReapStatus(ws) == IF ws = SIGTERM THEN 0 ELSE ws

\* lines 1324-1328: the slot of pid in procs (0 when it is not there)
SlotOf(procs, pid) ==
  IF \E i \in 1..Len(procs) : procs[i] = pid
    THEN CHOOSE i \in 1..Len(procs) : procs[i] = pid
    ELSE 0

\* lines 1320-1322: the first processing job whose procs hold pid (0: none)
JobOf(jl, pid) ==
  LET hits == {j \in 1..Len(jl) : jl[j].state = IPP_JOB_PROCESSING
                                   /\ SlotOf(jl[j].procs, pid) # 0}
  IN IF hits = {} THEN 0 ELSE CHOOSE j \in hits : \A k \in hits : j <= k

\* line 1334
MarkSlot_Keep(procs, i, pid) == procs

MarkSlot(procs, i, pid) == [procs EXCEPT ![i] = -pid]

\* line 1336: the job's status may still be recorded
StatusOpen_Always(st) == TRUE

StatusOpen(st) == st >= 0

\* lines 1346-1349
Disposition_Swapped(status, last) == IF last THEN status ELSE -status

Disposition(status, last) == IF last THEN -status ELSE status

Reaped(job, pid, status) ==
  LET i == SlotOf(job.procs, pid)
      marked == [job EXCEPT !.procs = MarkSlot(job.procs, i, pid)]
  IN IF status # 0 /\ StatusOpen(job.status)
       THEN [marked EXCEPT !.status = Disposition(status, i = Len(job.procs))]
       ELSE marked

MWait ==
  /\ mpc = "wait"
  /\ IF \E p \in DOMAIN kids : kids[p] = "zombie"
       THEN \E p \in DOMAIN kids, e \in Endings :
              /\ kids[p] = "zombie"
              /\ kids' = [kids EXCEPT ![p] = "reaped"]
              /\ LET j == JobOf(Jobs, p)
                 IN Jobs' = IF j = 0 THEN Jobs
                            ELSE [Jobs EXCEPT ![j] = Reaped(Jobs[j], p, ReapStatus(WaitStatus(e)))]
              /\ mpc' = "wait"
       ELSE /\ mpc' = "reload"
            /\ UNCHANGED <<kids, Jobs>>
  /\ UNCHANGED <<notSched, sch, Clients, now>>

(***************************************************************************)
(* main, lines 541-583: the pending reload.                                *)
(***************************************************************************)
\* lines 547-558: close the waiting clients, switch keep-alive off for the others
QuiesceClients_KeepIdle(cl) == [i \in 1..Len(cl) |-> [cl[i] EXCEPT !.keep_alive = FALSE]]

QuiesceClients(cl) ==
  LET busy == SelectSeq(cl, LAMBDA c : c.state # "WAITING")
  IN [i \in 1..Len(busy) |-> [busy[i] EXCEPT !.keep_alive = FALSE]]

\* lines 564-566
JobProcessing(jl) == \E j \in 1..Len(jl) : jl[j].state = IPP_JOB_PROCESSING

\* lines 573-574
ReloadDue_AnyClients(numClients, job, need, elapsed) ==
  (~job \/ need # RELOAD_ALL) \/ elapsed >= ReloadTimeout

ReloadDue(numClients, job, need, elapsed) ==
  (numClients = 0 /\ (~job \/ need # RELOAD_ALL)) \/ elapsed >= ReloadTimeout

\* main's return value, line 992
ExitCode(ss) == IF ss.stop_scheduler # 0 THEN 0 ELSE 1

(***************************************************************************)
(* ReadConfiguration (conf.c) as the loop sees it: on success the pending  *)
(* reload is cleared and listening resumes; on failure it returns 0.       *)
(***************************************************************************)
ReadConfiguration(ss) ==
  [ss EXCEPT !.NeedReload = RELOAD_NONE, !.paused = FALSE]

MReload ==
  /\ mpc = "reload"
  /\ IF sch.NeedReload = RELOAD_NONE
       THEN /\ mpc' = "timeout"
            /\ UNCHANGED <<sch, Clients>>
       ELSE LET cl == IF Len(Clients) > 0 THEN QuiesceClients(Clients) ELSE Clients
            IN /\ Clients' = cl
               /\ sch' = [sch EXCEPT !.paused = IF Len(Clients) > 0 THEN TRUE ELSE @]
               /\ mpc' = IF ReloadDue(Len(cl), JobProcessing(Jobs), sch.NeedReload,
                                      now - sch.ReloadTime)
                           THEN "readconf" ELSE "timeout"
  /\ UNCHANGED <<notSched, Jobs, kids, now>>

\* lines 576-582: if (!ReadConfiguration()) { ...; break; }
MReadConf ==
  /\ mpc = "readconf"
  /\ \/ /\ sch' = ReadConfiguration(sch)
        /\ mpc' = "timeout"
     \/ /\ sch' = [sch EXCEPT !.retcode = ExitCode(sch)]
        /\ mpc' = "stopped"
  /\ UNCHANGED <<notSched, Clients, Jobs, kids, now>>

(***************************************************************************)
(* main, lines 593-597: the timeout of the coming select.  wake is the     *)
(* time the timeout ends; MaxTime stands for every later time.             *)
(***************************************************************************)
LoopState ==
  [now |-> now, fds |-> sch.fds, clients |-> Clients, Timeout |-> Timeout,
   NotifyPost |-> 0,
   browse |-> [Browsing |-> FALSE, local |-> FALSE, remote |-> FALSE, cups |-> FALSE,
               slp |-> FALSE, BrowseSLPRefresh |-> 0, BrowseTimeout |-> 300,
               BrowseInterval |-> 30],
   printers |-> <<>>,
   jobs |-> [j \in 1..Len(Jobs) |-> Jobs[j].state],
   mallinfo |-> [on |-> FALSE, mallinfo_time |-> 0],
   cert |-> [RootCertDuration |-> 0, RootCertTime |-> 0]]

MTimeout ==
  /\ mpc = "timeout"
  /\ sch' = [sch EXCEPT !.wake = Min(now + select_timeout(sch.fds, LoopState), MaxTime),
                        !.intr = FALSE]
  /\ mpc' = "select"
  /\ UNCHANGED <<notSched, Clients, Jobs, kids, now>>

(***************************************************************************)
(* main, line 599: select.  A status pipe whose writers have all ended is  *)
(* readable (end of file), so select does not block while there is one.    *)
(***************************************************************************)
PipeAtEof(j) ==
  /\ Jobs[j].state = IPP_JOB_PROCESSING /\ Jobs[j].pipe
  /\ \A i \in 1..Len(Jobs[j].procs) :
       Jobs[j].procs[i] < 0 \/ kids[Jobs[j].procs[i]] # "run"

PipesAtEof == {j \in 1..Len(Jobs) : PipeAtEof(j)}

PipesOpen == {j \in 1..Len(Jobs) : Jobs[j].state = IPP_JOB_PROCESSING /\ Jobs[j].pipe}

\* lines 610-611: interrupted by a signal: continue
MSelectIntr ==
  /\ mpc = "select"
  /\ sch.intr /\ PipesAtEof = {}
  /\ sch' = [sch EXCEPT !.fds = -1, !.intr = FALSE, !.wake = 0]
  /\ mpc' = "while"
  /\ UNCHANGED <<notSched, Clients, Jobs, kids, now>>

\* lines 613-672: any other select error: break
MSelectError ==
  /\ mpc = "select"
  /\ sch' = [sch EXCEPT !.fds = -1, !.intr = FALSE, !.wake = 0, !.retcode = ExitCode(sch)]
  /\ mpc' = "stopped"
  /\ UNCHANGED <<notSched, Clients, Jobs, kids, now>>

(***************************************************************************)
(* main, lines 675-734: what one pass over the listeners and the clients   *)
(* does to a client, by what ReadClient and WriteClient did with it        *)
(* (client.c): nothing, a request was read, the response was finished, or  *)
(* the client was closed; then the idle check of lines 725-733.            *)
(***************************************************************************)
ClientEvents == {"none", "request", "finish", "putconf", "closed"}

ClientMay(c, o) ==
  \/ o \in {"none", "request", "closed"}
  \/ o = "finish" /\ c.state = "BUSY"
  \/ o = "putconf" /\ c.state = "BUSY" /\ now + ReloadTimeout <= MaxTime

ClientAfter(c, o) ==
  LET c1 == CASE o = "none" -> c
              [] o = "request" -> [c EXCEPT !.state = "BUSY", !.activity = now]
              [] o \in {"finish", "putconf"} ->
                   IF c.keep_alive THEN [c EXCEPT !.state = "WAITING", !.activity = now]
                                   ELSE [c EXCEPT !.state = "CLOSED"]
              [] o = "closed" -> [c EXCEPT !.state = "CLOSED"]
  IN IF c1.state # "CLOSED" /\ c1.activity < now - Timeout
       THEN [c1 EXCEPT !.state = "CLOSED"]
       ELSE c1

ClientsAfter(cl, f, accept) ==
  SelectSeq([i \in 1..Len(cl) |-> ClientAfter(cl[i], f[i])],
            LAMBDA c : c.state # "CLOSED")
  \o (IF accept THEN <<[state |-> "WAITING", keep_alive |-> TRUE,
                        activity |-> now, used |-> 0]>>
                ELSE <<>>)

(***************************************************************************)
(* A request that installs a new cupsd.conf asks for a reload of the       *)
(* scheduler's own configuration only: the reload kind line 573 tells      *)
(* from RELOAD_ALL.                                                        *)
(***************************************************************************)
RequestConfigReload(ss) == [ss EXCEPT !.NeedReload = RELOAD_CUPSD, !.ReloadTime = now]

(***************************************************************************)
(* UpdateJob (job.c) for a job whose status pipe is readable: when every   *)
(* process of the pipeline has been reaped the job leaves Processing,      *)
(* stopped if the backend failed, aborted if a filter failed, completed    *)
(* otherwise.                                                              *)
(***************************************************************************)
AllReaped(job) == \A i \in 1..Len(job.procs) : job.procs[i] < 0

UpdateJob(job) ==
  IF AllReaped(job)
    THEN [job EXCEPT !.pipe = FALSE,
                     !.state = IF job.status < 0 THEN IPP_JOB_STOPPED
                               ELSE IF job.status > 0 THEN IPP_JOB_ABORTED
                               ELSE IPP_JOB_COMPLETED]
    ELSE job

(***************************************************************************)
(* main, line 599 returning >= 0 and lines 675-907: select reports the     *)
(* listener (accept), the clients with an event and the status pipes in    *)
(* J, or nothing when the timeout has ended; then the rest of the          *)
(* iteration runs.                                                         *)
(***************************************************************************)
MSelectReady ==
  /\ mpc = "select"
  /\ \E f \in [1..Len(Clients) -> ClientEvents], accept \in BOOLEAN, J \in SUBSET PipesOpen :
       LET nready == Cardinality({i \in 1..Len(Clients) : f[i] # "none"})
                     + Cardinality(J) + (IF accept THEN 1 ELSE 0)
       IN /\ \A i \in 1..Len(Clients) : ClientMay(Clients[i], f[i])
          /\ accept => (~sch.paused /\ Len(Clients) < MaxClients)
          /\ PipesAtEof \subseteq J
          /\ nready = 0 => (~sch.intr /\ now >= sch.wake)
          /\ Clients' = ClientsAfter(Clients, f, accept)
          /\ Jobs' = [j \in 1..Len(Jobs) |-> IF j \in J THEN UpdateJob(Jobs[j]) ELSE Jobs[j]]
          /\ LET s1 == [sch EXCEPT !.fds = nready, !.intr = FALSE, !.wake = 0]
             IN sch' = IF \E i \in 1..Len(Clients) : f[i] = "putconf"
                         THEN RequestConfigReload(s1) ELSE s1
  /\ mpc' = "while"
  /\ UNCHANGED <<notSched, kids, now>>

MainLoop ==
  \/ MWhile \/ MChildren \/ MWait \/ MReload \/ MReadConf \/ MTimeout
  \/ MSelectIntr \/ MSelectError \/ MSelectReady

SchedNext == MainLoop \/ ChildExit \/ SigHup \/ SigTerm \/ Tick

(***************************************************************************)
(* scheduler/main.c: HoldSignals and ReleaseSignals (lines 1108-1179),     *)
(* with the signals they hold.  blocked is the part of the process signal  *)
(* mask that covers SIGTERM and SIGCHLD; a signal sent while it is blocked *)
(* stays pending and its handler runs when the mask is lifted.  The build  *)
(* uses either sighold/sigrelse (HAVE_SIGSET) or sigprocmask with the      *)
(* saved holdmask (HAVE_SIGACTION).                                        *)
(***************************************************************************)
HeldSignals == {"SIGTERM", "SIGCHLD"}

HoldInit ==
  \E ss \in BOOLEAN :
    hold = [holdcount |-> 0,          \* line 98
            holdmask |-> FALSE,       \* line 100: the mask saved by sigprocmask
            HAVE_SIGSET |-> ss,
            blocked |-> FALSE,
            pending |-> {},
            dead_children |-> 0, stop_scheduler |-> 0,
            unmatched |-> FALSE]      \* history: ReleaseSignals was called at count 0

Handler(sig, hh) == IF sig = "SIGTERM" THEN sigterm_handler(hh) ELSE sigchld_handler(hh)

\* the handlers of the pending signals run once the mask no longer blocks them
Deliver(hh) ==
  IF hh.blocked THEN hh
  ELSE [hh EXCEPT !.pending = {},
                  !.dead_children = IF "SIGCHLD" \in hh.pending THEN 1 ELSE @,
                  !.stop_scheduler = IF "SIGTERM" \in hh.pending THEN 1 ELSE @]

\* lines 1117-1118: if (holdcount > 1) return
HoldNested_FromOne(c) == c > 0

HoldNested(c) == c > 1

\* lines 1168-1170: if (holdcount > 0) return
StillHeld_FromOne(c) == c > 1

StillHeld(c) == c > 0

HoldSignals ==
  /\ hold.holdcount < MaxHold
  /\ LET c == hold.holdcount + 1
         h1 == [hold EXCEPT !.holdcount = c]
     IN hold' = IF HoldNested(c) THEN h1
                ELSE [h1 EXCEPT !.blocked = TRUE,
                                !.holdmask = IF hold.HAVE_SIGSET THEN @ ELSE hold.blocked]
  /\ UNCHANGED notHold

ReleaseSignals ==
  /\ hold.holdcount > -MaxHold
  /\ LET c == hold.holdcount - 1
         h1 == [hold EXCEPT !.holdcount = c, !.unmatched = @ \/ hold.holdcount <= 0]
     IN hold' = IF StillHeld(c) THEN h1
                ELSE Deliver([h1 EXCEPT !.blocked = IF hold.HAVE_SIGSET THEN FALSE
                                                    ELSE hold.holdmask])
  /\ UNCHANGED notHold

\* a SIGTERM or SIGCHLD is sent to the scheduler
SignalSent ==
  /\ \E sig \in HeldSignals :
       hold' = IF hold.blocked THEN [hold EXCEPT !.pending = @ \cup {sig}]
               ELSE Handler(sig, hold)
  /\ UNCHANGED notHold

HoldNext == HoldSignals \/ ReleaseSignals \/ SignalSent

(***************************************************************************)
(* scheduler/main.c with nothing to do: no clients, no jobs, browsing off, *)
(* no pending notification, no signal.  Each round of the loop calls       *)
(* select_timeout (line 596), sleeps in select until the timeout expires   *)
(* (lines 598-599) and then tests the age of the root certificate (line    *)
(* 899).  The clock advances in seconds while the loop sleeps.             *)
(***************************************************************************)
RootCertDuration == 300

\* the state select_timeout reads in the idle scheduler
IdleState(i) ==
  [now |-> i.now, fds |-> 0, clients |-> <<>>, Timeout |-> 300, NotifyPost |-> 0,
   browse |-> [Browsing |-> FALSE, local |-> FALSE, remote |-> FALSE, cups |-> FALSE,
               slp |-> FALSE, BrowseSLPRefresh |-> 0, BrowseTimeout |-> 300,
               BrowseInterval |-> 30],
   printers |-> <<>>, jobs |-> <<>>,
   mallinfo |-> [on |-> FALSE, mallinfo_time |-> 0],
   cert |-> [RootCertDuration |-> RootCertDuration, RootCertTime |-> i.RootCertTime]]

IdleInit ==
  \E age \in 0..MaxAge :
    idle = [pc |-> "timeout", now |-> NowT, start |-> NowT, wake |-> NowT,
            RootCertTime |-> NowT - age, cert0 |-> NowT - age, rotations |-> 0]

\* line 596: timeout.tv_sec = select_timeout(fds)
ITimeout ==
  /\ idle.pc = "timeout"
  /\ idle' = [idle EXCEPT !.pc = "select",
                          !.wake = idle.now + select_timeout(0, IdleState(idle))]
  /\ UNCHANGED notIdle

\* a second passes while select sleeps
ITick ==
  /\ idle.pc = "select"
  /\ idle.now < idle.wake /\ idle.now < idle.start + Hour
  /\ idle' = [idle EXCEPT !.now = @ + 1]
  /\ UNCHANGED notIdle

\* lines 598-599: select returns 0 when the timeout has expired
IWake ==
  /\ idle.pc = "select"
  /\ idle.now = idle.wake
  /\ idle' = [idle EXCEPT !.pc = "cert"]
  /\ UNCHANGED notIdle

\* line 899
CertDue(i) ==
  i.now - i.RootCertTime >= RootCertDuration /\ RootCertDuration # 0

\* lines 905-906: DeleteCert(0); AddCert(0, "root") stamps the new certificate
AddCert(i) == [i EXCEPT !.RootCertTime = i.now, !.rotations = @ + 1]

ICert ==
  /\ idle.pc = "cert"
  /\ idle' = [(IF CertDue(idle) THEN AddCert(idle) ELSE idle) EXCEPT !.pc = "timeout"]
  /\ UNCHANGED notIdle

IdleNext == ITimeout \/ ITick \/ IWake \/ ICert

(***************************************************************************)
(* get_device_id, lines 841-879: the parse of the IEEE-1284 reply.  The    *)
(* reply is a two-byte length that counts itself, then the device ID       *)
(* text.  The caller's buffer is the 1024-byte device_id of find_device    *)
(* (line 669); what lies in it beyond the reply is whatever was there.     *)
(***************************************************************************)
IdBufSize == 1024
MinIdReply == 14

Prefix(len, endian) ==
  IF endian = "BE" THEN <<len \div 256, len % 256>> ELSE <<len % 256, len \div 256>>

\* a device ID text of n bytes, none of them NUL
Payload(n) == [i \in 1..n |-> 65 + (i % 26)]

BuildReply(P, endian, junk) ==
  Prefix(Len(P) + 2, endian) \o P \o [i \in 1..(IdBufSize - Len(P) - 2) |-> junk]

\* lines 841-857: the length the parse settles on
ReplyLength_BigEndianOnly(buffer, bufsize) ==
  LET be == buffer[1] * 256 + buffer[2]
  IN  IF be > bufsize THEN bufsize ELSE be

ReplyLength(buffer, bufsize) ==
  LET be == buffer[1] * 256 + buffer[2]
      le == buffer[2] * 256 + buffer[1]
      l1 == IF be > bufsize \/ be < MinIdReply THEN le ELSE be
  IN  IF l1 > bufsize THEN bufsize ELSE l1

\* lines 859-878
ParseDeviceId(buffer, bufsize) ==
  LET length == ReplyLength(buffer, bufsize)
  IN  IF length < MinIdReply
        THEN [ret |-> -1, buffer |-> <<0>> \o Tail(buffer)]
        ELSE [ret |-> 0,
              buffer |-> SubSeq(buffer, 3, length) \o <<0>> \o
                         SubSeq(buffer, length, bufsize)]

\* the C string that starts the buffer
StrLen(buffer) ==
  LET nuls == {i \in 1..Len(buffer) : buffer[i] = 0}
  IN  IF nuls = {} THEN Len(buffer)
      ELSE (CHOOSE i \in nuls : \A j \in nuls : i <= j) - 1

CString(buffer) == SubSeq(buffer, 1, StrLen(buffer))

DevIdInit ==
  \E n \in (MinIdReply - 2)..(IdBufSize - 2), e \in {"BE", "LE"}, junk \in {0, 88} :
    did = [pc |-> "reply", n |-> n, endian |-> e, ret |-> 0,
           buffer |-> BuildReply(Payload(n), e, junk)]

DParse ==
  /\ did.pc = "reply"
  /\ LET r == ParseDeviceId(did.buffer, IdBufSize)
     IN  did' = [did EXCEPT !.pc = "parsed", !.ret = r.ret, !.buffer = r.buffer]
  /\ UNCHANGED notDevId

DevIdNext == DParse

(***************************************************************************)
(* find_device, lines 700-790, for one interface of one device, and        *)
(* open_device, lines 1062-1219.  An alternate setting is printer class    *)
(* with subclass 1 or not, has a protocol and a list of endpoints; an      *)
(* endpoint is bulk or interrupt and has a direction.  The locals          *)
(* protocol, read_endp and write_endp are uint8_t.                         *)
(***************************************************************************)
U8(x) == x % 256

EndpKinds == {"bulk_in", "bulk_out", "intr_in"}

EndpLists == UNION {[1..n -> EndpKinds] : n \in 0..MaxEndp}

AltSettings ==
  {[printer |-> c, protocol |-> p, endpoint |-> e] :
     c \in BOOLEAN, p \in 1..3, e \in EndpLists} \ 
  {[printer |-> FALSE, protocol |-> p, endpoint |-> e] : p \in 2..3, e \in EndpLists}

Interfaces == UNION {[1..n -> AltSettings] : n \in 1..MaxAlt}

\* lines 742-750: the body of the loop over the endpoints
PickEndp_KeepFirst(e, kind, endp) ==
  IF kind = "bulk_in" /\ e.read_endp = U8(-1) THEN [e EXCEPT !.read_endp = endp]
  ELSE IF kind = "bulk_out" /\ e.write_endp = U8(-1) THEN [e EXCEPT !.write_endp = endp]
  ELSE e

PickEndp(e, kind, endp) ==
  IF kind = "bulk_in" THEN [e EXCEPT !.read_endp = endp]
  ELSE IF kind = "bulk_out" THEN [e EXCEPT !.write_endp = endp]
  ELSE e

\* lines 734-750: read_endp = -1, write_endp = -1 and the loop from endp on
RECURSIVE ScanFrom(_, _, _)
ScanFrom(eps, endp, e) ==
  IF endp >= Len(eps) THEN e
  ELSE ScanFrom(eps, endp + 1, PickEndp(e, eps[endp + 1], endp))

ScanEndpoints(eps) == ScanFrom(eps, 0, [read_endp |-> U8(-1), write_endp |-> U8(-1)])

\* lines 724-729: the alternate settings the scan skips
Skipped(a, protocol) ==
  ~a.printer \/ (a.protocol # 1 /\ a.protocol # 2) \/ a.protocol < protocol

\* line 752: write_endp >= 0, with write_endp a uint8_t
WriteFound(write_endp) == write_endp >= 0

FindInit ==
  \E ifc \in Interfaces :
    fnd = [pc |-> "scan", altsetting |-> ifc, altset |-> 0, protocol |-> 0,
          printer |-> [altset |-> 0, write_endp |-> 0, read_endp |-> 0, protocol |-> 0,
                       handle |-> FALSE, usblp_attached |-> 0],
          claimed |-> FALSE, ret |-> 0, offered |-> FALSE,
          left |-> MaxIface - 1, open |-> 0, driver |-> "kernel", rejected |-> FALSE]

\* lines 716-762: one round of the loop over the alternate settings
FScan ==
  /\ fnd.pc = "scan"
  /\ fnd.altset < Len(fnd.altsetting)
  /\ LET a == fnd.altsetting[fnd.altset + 1]
         e == ScanEndpoints(a.endpoint)
     IN  IF ~Skipped(a, fnd.protocol) /\ WriteFound(e.write_endp)
           THEN fnd' = [fnd EXCEPT !.altset = @ + 1,
                                 !.protocol = a.protocol,
                                 !.printer.altset = fnd.altset,
                                 !.printer.write_endp = e.write_endp,
                                 !.printer.read_endp = e.read_endp]
           ELSE fnd' = [fnd EXCEPT !.altset = @ + 1]
  /\ UNCHANGED notFind

\* lines 764-772: after the loop, a match is opened
FMatch ==
  /\ fnd.pc = "scan"
  /\ fnd.altset = Len(fnd.altsetting)
  /\ IF fnd.protocol > 0
       THEN fnd' = [fnd EXCEPT !.pc = "o_open", !.printer.protocol = fnd.protocol,
                             !.printer.handle = FALSE]
       ELSE fnd' = [fnd EXCEPT !.pc = "none"]
  /\ UNCHANGED notFind

(***************************************************************************)
(* open_device.  libusb_open, then the configuration (lines 1091-1127,     *)
(* whose failures are only logged), the kernel driver probe and detach,    *)
(* the claim of the interface and the alternate setting.                   *)
(***************************************************************************)
OOpen ==
  /\ fnd.pc = "o_open"
  /\ \/ fnd' = [fnd EXCEPT !.pc = "opened", !.ret = -1]
     \/ fnd' = [fnd EXCEPT !.pc = "o_probe", !.printer.handle = TRUE, !.open = @ + 1]
  /\ UNCHANGED notFind

\* lines 1134-1154: libusb_kernel_driver_active returns 0, 1 or an error
OProbe ==
  /\ fnd.pc = "o_probe"
  /\ \E errcode \in {0, 1, -1} :
       fnd' = [fnd EXCEPT !.printer.usblp_attached = IF errcode = 1 THEN 1 ELSE 0,
                        !.pc = IF errcode = 0 THEN "o_claim"
                               ELSE IF errcode = 1 THEN "o_detach" ELSE "o_error"]
  /\ UNCHANGED notFind

\* lines 1140-1146: libusb_detach_kernel_driver
ODetach ==
  /\ fnd.pc = "o_detach"
  /\ \E errcode \in {0, -1} :
       fnd' = [fnd EXCEPT !.pc = IF errcode < 0 THEN "o_error" ELSE "o_claim",
                        !.driver = IF errcode < 0 THEN @ ELSE "detached"]
  /\ UNCHANGED notFind

\* lines 1160-1172: libusb_claim_interface
OClaim ==
  /\ fnd.pc = "o_claim"
  /\ \E errcode \in {0, -1} :
       fnd' = IF errcode < 0
               THEN [fnd EXCEPT !.pc = "o_error"]
               ELSE [fnd EXCEPT !.claimed = TRUE,
                               !.pc = IF Len(fnd.altsetting) > 1 THEN "o_altset"
                                                                ELSE "o_done"]
  /\ UNCHANGED notFind

\* lines 1179-1198: libusb_set_interface_alt_setting
OAltset ==
  /\ fnd.pc = "o_altset"
  /\ \E errcode \in {0, -1} :
       fnd' = [fnd EXCEPT !.pc = IF errcode < 0 THEN "o_error" ELSE "o_done"]
  /\ UNCHANGED notFind

\* lines 1200-1205: return (0)
ODone ==
  /\ fnd.pc = "o_done"
  /\ fnd' = [fnd EXCEPT !.pc = "opened", !.ret = 0]
  /\ UNCHANGED notFind

\* lines 1211-1218: libusb_close(printer->handle); printer->handle = NULL
CloseOnError_Leak(f) == [f EXCEPT !.claimed = FALSE]

CloseOnError(f) ==
  [f EXCEPT !.printer.handle = FALSE, !.claimed = FALSE, !.open = @ - 1]

OError ==
  /\ fnd.pc = "o_error"
  /\ fnd' = [CloseOnError(fnd) EXCEPT !.pc = "opened", !.ret = -1]
  /\ UNCHANGED notFind

\* the bEndpointAddress of an endpoint: its direction bit and its number
EndpointAddress(eps, endp) ==
  IF endp < Len(eps)
    THEN {(IF eps[endp + 1] \in {"bulk_in", "intr_in"} THEN 128 ELSE 0) + endp + 1}
    ELSE {0, 255}          \* a read past the end of the endpoint array

\* lines 596-634, close_device on the printer of find_device: the interface
\* is released, the kernel driver is attached again when usblp_attached is 1
\* (a failure is only logged), and the handle is closed
CloseRejected_KeepOpen(f) == [f EXCEPT !.claimed = FALSE]

CloseRejected(f) ==
  [f EXCEPT !.printer.handle = FALSE, !.claimed = FALSE, !.open = @ - 1,
            !.driver = IF f.printer.usblp_attached = 1 THEN "reattach" ELSE @]

\* lines 770-790: the device is offered to the callback; a device it takes
\* is returned with the endpoint indexes replaced by endpoint addresses, a
\* device it does not take is closed
FCallback ==
  /\ fnd.pc = "opened"
  /\ IF fnd.ret # 0
       THEN fnd' = [fnd EXCEPT !.pc = "none"]
       ELSE LET eps == fnd.altsetting[fnd.printer.altset + 1].endpoint
            IN \/ \E ra \in EndpointAddress(eps, fnd.printer.read_endp),
                     wa \in EndpointAddress(eps, fnd.printer.write_endp) :
                    fnd' = [fnd EXCEPT !.pc = "found", !.offered = TRUE,
                                     !.printer.read_endp = ra,
                                     !.printer.write_endp = wa]
               \/ fnd' = [CloseRejected(fnd) EXCEPT !.pc = "none", !.offered = TRUE,
                                                  !.rejected = TRUE]
  /\ UNCHANGED notFind

\* lines 707-709 and 790-791: iface ++, ifaceptr ++ ends the work on one
\* interface.  Everything the next round reads of protocol and of printer
\* is written again before it is read, so the round starts from cleared
\* values; the handles that are open stay open.
FNext ==
  /\ fnd.pc = "none" /\ fnd.left > 0
  /\ fnd' = [pc |-> "next", altsetting |-> <<>>, altset |-> 0, protocol |-> 0,
             printer |-> [altset |-> 0, write_endp |-> 0, read_endp |-> 0,
                          protocol |-> 0, handle |-> FALSE, usblp_attached |-> 0],
             claimed |-> FALSE, ret |-> 0, offered |-> FALSE,
             left |-> fnd.left - 1, open |-> fnd.open, driver |-> "kernel",
             rejected |-> fnd.rejected]
  /\ UNCHANGED notFind

\* lines 707-715: the next interface of the list; protocol = 0
FIface ==
  /\ fnd.pc = "next"
  /\ \E ifc \in Interfaces : fnd' = [fnd EXCEPT !.pc = "scan", !.altsetting = ifc]
  /\ UNCHANGED notFind

FindNext ==
  \/ FScan \/ FMatch \/ OOpen \/ OProbe \/ ODetach \/ OClaim \/ OAltset
  \/ ODone \/ OError \/ FCallback \/ FNext \/ FIface

(***************************************************************************)
(* scheduler/main.c, lines 679-759: what one iteration of main does with   *)
(* a client and with the job list after select has returned.  input and    *)
(* output are the local copies of InputSet and OutputSet that select       *)
(* filled in.  For the client con: inp and out are FD_ISSET(con->http.fd)  *)
(* in input and in output, fileIn is FD_ISSET(con->file, input) and        *)
(* fileInSet tells whether con->file is in InputSet; calls lists the       *)
(* functions of client.c called for it.  For the jobs: pipe is job->pipe,  *)
(* jin the status pipe descriptors set in input, upd the number of         *)
(* UpdateJob calls made for each descriptor.                               *)
(***************************************************************************)
PipeFds == 1..(MaxJobs + 1)

JobPipes ==
  {jl \in UNION {[1..n -> {-1} \cup PipeFds] : n \in 0..(MaxJobs + 1)} :
     \A i, j \in 1..Len(jl) : (i # j /\ jl[i] >= 0) => jl[i] # jl[j]}

PassInit ==
  \E t \in 0..MaxTime, a \in 0..MaxTime, u, pp, fr \in {0, 1},
     i, o, fi, fs \in BOOLEAN, jl \in JobPipes, ji \in SUBSET PipeFds :
    /\ a <= t
    /\ fi => fs                \* input is a copy of InputSet
    /\ pas = [pc |-> "read", now |-> t,
              con |-> [open |-> TRUE, inp |-> i, out |-> o, used |-> u,
                       pipe_pid |-> pp, fileIn |-> fi, fileInSet |-> fs,
                       file_ready |-> fr, activity |-> a],
              calls |-> <<>>,
              jobs |-> jl, job |-> 1, jin |-> ji,
              upd |-> [d \in PipeFds |-> 0]]

(***************************************************************************)
(* ReadClient and WriteClient (client.c) as the loop sees them: a return   *)
(* of 0 means that the client was closed; otherwise the call may have      *)
(* refreshed http.activity and started or ended the filter process.        *)
(***************************************************************************)
ReadClient(c, t) ==
  {[ret |-> 0, con |-> [c EXCEPT !.open = FALSE]]} \cup
  {[ret |-> 1, con |-> [c EXCEPT !.activity = a, !.pipe_pid = pp, !.used = 0]] :
     a \in {c.activity, t}, pp \in {0, 1}}

WriteClient(c, t) ==
  {[ret |-> 0, con |-> [c EXCEPT !.open = FALSE]]} \cup
  {[ret |-> 1, con |-> [c EXCEPT !.activity = a, !.pipe_pid = pp, !.file_ready = 0]] :
     a \in {c.activity, t}, pp \in {0, c.pipe_pid}}

CloseClient(c) == [c EXCEPT !.open = FALSE]

\* lines 689-691 and 717-719: "if (!ReadClient(con)) continue;"
AfterCall_NoContinue(ret, then) == then

AfterCall(ret, then) == IF ret = 0 THEN "job" ELSE then

\* lines 689-691
PRead ==
  /\ pas.pc = "read"
  /\ IF pas.con.inp \/ pas.con.used # 0
       THEN \E r \in ReadClient(pas.con, pas.now) :
              pas' = [pas EXCEPT !.pc = AfterCall(r.ret, "file"), !.con = r.con,
                                 !.calls = Append(@, "ReadClient")]
       ELSE pas' = [pas EXCEPT !.pc = "file"]
  /\ UNCHANGED notPass

\* lines 697-714: the filter's pipe has data
FileReady_AlwaysDrop(c) == [c EXCEPT !.file_ready = 1, !.fileInSet = FALSE]

FileReady(c) ==
  [c EXCEPT !.file_ready = 1, !.fileInSet = IF ~c.out THEN FALSE ELSE @]

PFile ==
  /\ pas.pc = "file"
  /\ pas' = [pas EXCEPT !.pc = "write",
                        !.con = IF @.pipe_pid # 0 /\ @.fileIn THEN FileReady(@) ELSE @]
  /\ UNCHANGED notPass

\* lines 716-717
Writable(c) == c.out /\ (c.pipe_pid = 0 \/ c.file_ready # 0)

\* lines 716-719
PWrite ==
  /\ pas.pc = "write"
  /\ IF Writable(pas.con)
       THEN \E r \in WriteClient(pas.con, pas.now) :
              pas' = [pas EXCEPT !.pc = AfterCall(r.ret, "idle"), !.con = r.con,
                                 !.calls = Append(@, "WriteClient")]
       ELSE pas' = [pas EXCEPT !.pc = "idle"]
  /\ UNCHANGED notPass

\* lines 725-726: activity = time(NULL) - Timeout; http.activity < activity && !pipe_pid
IdleTooLong_FilterToo(c, t) == c.activity < t - Timeout

IdleTooLong(c, t) == c.activity < t - Timeout /\ c.pipe_pid = 0

\* lines 725-733
PIdle ==
  /\ pas.pc = "idle"
  /\ IF IdleTooLong(pas.con, pas.now)
       THEN pas' = [pas EXCEPT !.pc = "job", !.con = CloseClient(@),
                              !.calls = Append(@, "CloseClient")]
       ELSE pas' = [pas EXCEPT !.pc = "job"]
  /\ UNCHANGED notPass

\* line 752: FD_CLR(job->pipe, input)
ClearReady_Keep(in, d) == in

ClearReady(in, d) == in \ {d}

(***************************************************************************)
(* UpdateJob (job.c) as the loop over the jobs sees it: the job goes on,   *)
(* or it ends and its status pipe is closed, and then a job that waits     *)
(* behind it may be started with a new status pipe, whose descriptor is    *)
(* the one just closed or any other free one.                              *)
(***************************************************************************)
FreeFds(jl) == PipeFds \ {jl[i] : i \in 1..Len(jl)}

UpdatedJobs(jl, j) ==
  LET ended == [jl EXCEPT ![j] = -1]
  IN {jl, ended} \cup
     {[ended EXCEPT ![k] = d] : k \in {i \in (j + 1)..Len(jl) : jl[i] = -1},
                                d \in FreeFds(ended)}

\* lines 740-759: one round of the loop over the jobs
PJob ==
  /\ pas.pc = "job"
  /\ pas.job <= Len(pas.jobs)
  /\ LET d == pas.jobs[pas.job]
     IN IF d >= 0 /\ d \in pas.jin
          THEN \E jl \in UpdatedJobs(pas.jobs, pas.job) :
                 pas' = [pas EXCEPT !.jin = ClearReady(@, d), !.jobs = jl,
                                    !.upd[d] = @ + 1, !.job = @ + 1]
          ELSE pas' = [pas EXCEPT !.job = @ + 1]
  /\ UNCHANGED notPass

\* the loop over the jobs is over
PEnd ==
  /\ pas.pc = "job"
  /\ pas.job > Len(pas.jobs)
  /\ pas' = [pas EXCEPT !.pc = "end"]
  /\ UNCHANGED notPass

PassNext == PRead \/ PFile \/ PWrite \/ PIdle \/ PJob \/ PEnd

UsbOff ==
  /\ g = [handle |-> FALSE]
  /\ w = [pc |-> "off"]
  /\ spc = "off"
  /\ rpc = "off"
  /\ env = [scOpen |-> FALSE]

ToOff == tin = [now |-> 0] /\ tout = -1

SchedOff ==
  /\ sch = [stop_scheduler |-> 1]
  /\ mpc = "off"
  /\ Clients = <<>>
  /\ Jobs = <<>>
  /\ kids = <<>>
  /\ now = 0

HoldOff == hold = [holdcount |-> 0]

IdleOff == idle = [pc |-> "off"]

DevIdOff == did = [pc |-> "off"]

FindOff == fnd = [pc |-> "off"]

PassOff == pas = [pc |-> "off"]

Init == UsbInit /\ ToOff /\ SchedOff /\ HoldOff /\ IdleOff /\ DevIdOff /\ FindOff /\ PassOff

Spec == Init /\ [][UsbNext]_vars

(***************************************************************************)
(* The backend with a fair writer only: print_device keeps running, the    *)
(* other two threads may stall at any point (in a transfer, in a reset).   *)
(***************************************************************************)
FairWriterSpec == Init /\ [][UsbNext]_vars /\ WF_vars(Writer)

(***************************************************************************)
(* The backend with a reader thread that keeps being scheduled.            *)
(***************************************************************************)
FairReaderSpec == Init /\ [][UsbNext]_vars /\ WF_vars(Reader)

(***************************************************************************)
(* The backend with the writer and the side-channel thread kept running:   *)
(* a thread that can take a step and stays able to is scheduled.  The      *)
(* mutex and the condition variable give no order among the threads that   *)
(* want the I/O lock: a thread that finds the flag set goes back to        *)
(* waiting.                                                                *)
(***************************************************************************)
FairLockSpec ==
  /\ Init /\ [][UsbNext]_vars
  /\ WF_vars(Writer) /\ WF_vars(SideChannel)

(***************************************************************************)
(* Who holds the I/O lock: the writer from the start and from each         *)
(* reacquire to the next release (lines 221, 328, 315, 489), soft_reset    *)
(* from line 1567 to line 1597.                                            *)
(***************************************************************************)
WriterHolds == w.pc \in {"copy", "top", "check", "read", "write", "sd_close"}

ResetHolds == spc \in {"sr_flush", "sr_reset", "sr_release"}

InCopyLoop == w.pc \in {"copy", "top", "select", "reacq", "check", "read", "write"}

(***************************************************************************)
(* C1 (as amended): the I/O lock is held by at most one of the writer and  *)
(* the soft-reset path of the side-channel thread, and readwrite_lock is   *)
(* set whenever one of them holds it; while the writer is in select and    *)
(* no soft reset runs nobody holds it (the read thread never takes it).    *)
(***************************************************************************)
C1_AtMostOneHolder ==
  /\ ~(WriterHolds /\ ResetHolds)
  /\ (WriterHolds \/ ResetHolds) => g.readwrite_lock = 1
  /\ (InCopyLoop /\ ~WriterHolds /\ ~ResetHolds) => g.readwrite_lock = 0

\* the side-channel thread resets the device while the writer waits for the lock
C1_Witness == spc = "sr_reset" /\ w.pc = "reacq" /\ g.readwrite_lock = 1

\* C1 as stated: during the copy loop exactly one thread holds the lock
C1_ExactlyOneHolder ==
  InCopyLoop => ((WriterHolds \/ ResetHolds) /\ ~(WriterHolds /\ ResetHolds))

(***************************************************************************)
(* C2: soft_reset flushes print_fd and resets the device only while it     *)
(* holds the I/O lock, and it takes the lock only when the writer has      *)
(* released it: the writer is never at its read of print_fd or at its      *)
(* bulk-out transfer while a soft reset is flushing or resetting.          *)
(***************************************************************************)
C2_ResetInsideLock ==
  /\ [](spc \in {"sr_flush", "sr_reset"} =>
          (g.readwrite_lock = 1 /\ w.pc \notin {"read", "write"}))
  /\ [][(spc = "sr_wait" /\ spc' = "sr_flush") =>
          (g.readwrite_lock = 0 /\ ~WriterHolds)]_vars

\* a soft reset flushes input while the writer, back from select, waits
C2_Witness == spc = "sr_flush" /\ w.pc = "reacq" /\ env.inPos < env.jobLen

(***************************************************************************)
(* C3 (as amended): the bulk-out endpoint never receives more bytes than   *)
(* the writer read from print_fd, and when print_device returns OK the     *)
(* bytes read are the bytes delivered plus the residue discarded by soft   *)
(* resets plus the residue left by the interrupted-select abort (taken     *)
(* only while total_bytes = 0); so the totals are equal on an OK return    *)
(* after end of file when no soft reset discarded residue.                 *)
(***************************************************************************)
C3_DeliveredAtMostRead ==
  /\ Len(env.deviceOut) <= env.readCount
  /\ (w.pc = "done" /\ w.retval = CUPS_BACKEND_OK) =>
        env.readCount = Len(env.deviceOut) + env.dropped + g.print_bytes
  /\ (w.pc = "done" /\ w.retval = CUPS_BACKEND_OK /\ g.read_thread_stop = 1) =>
        g.print_bytes = 0

\* an OK return after a partial write and a soft reset, with equal totals
C3_Witness ==
  /\ w.pc = "done" /\ w.retval = CUPS_BACKEND_OK /\ g.read_thread_stop = 1
  /\ env.resets > 0 /\ env.dropped = 0
  /\ env.readCount = 2 /\ Len(env.deviceOut) = 2 /\ w.print_ptr = 1

\* C3 as stated: the totals are equal whenever print_device returns OK
C3_EqualOnOk ==
  /\ Len(env.deviceOut) <= env.readCount
  /\ (w.pc = "done" /\ w.retval = CUPS_BACKEND_OK) =>
        env.readCount = Len(env.deviceOut)

SchedStart == SchedInit /\ UsbOff /\ ToOff /\ HoldOff /\ IdleOff /\ DevIdOff /\ FindOff /\ PassOff

SchedSpec == SchedStart /\ [][SchedNext]_vars

(***************************************************************************)
(* The scheduler under fair scheduling: the process keeps running (a step  *)
(* of the loop that can be taken is taken), and the clock does not stop    *)
(* however many times select returns within the same second.  The          *)
(* scheduler runs as root, so that SIGHUP asks for a reload.               *)
(***************************************************************************)
RootStart == SchedInit /\ ~sch.RunAsUser /\ UsbOff /\ ToOff /\ HoldOff /\ IdleOff /\ DevIdOff /\ FindOff /\ PassOff

FairSchedSpec ==
  /\ RootStart
  /\ [][SchedNext]_vars
  /\ WF_vars(MainLoop) /\ SF_vars(Tick)

HoldStart == HoldInit /\ UsbOff /\ ToOff /\ SchedOff /\ IdleOff /\ DevIdOff /\ FindOff /\ PassOff

HoldSpec == HoldStart /\ [][HoldNext]_vars

ToStart == ToInit /\ UsbOff /\ SchedOff /\ HoldOff /\ IdleOff /\ DevIdOff /\ FindOff /\ PassOff

TimeoutSpec == ToStart /\ [][ToNext]_vars

DevIdStart == DevIdInit /\ UsbOff /\ ToOff /\ SchedOff /\ HoldOff /\ IdleOff /\ FindOff /\ PassOff

DevIdSpec == DevIdStart /\ [][DevIdNext]_vars

FindStart == FindInit /\ UsbOff /\ ToOff /\ SchedOff /\ HoldOff /\ IdleOff /\ DevIdOff /\ PassOff

FindSpec == FindStart /\ [][FindNext]_vars

PassStart == PassInit /\ UsbOff /\ ToOff /\ SchedOff /\ HoldOff /\ IdleOff /\ DevIdOff /\ FindOff

PassSpec == PassStart /\ [][PassNext]_vars

IdleStart == IdleInit /\ UsbOff /\ ToOff /\ SchedOff /\ HoldOff /\ DevIdOff /\ FindOff /\ PassOff

IdleSpec == IdleStart /\ [][IdleNext]_vars

(***************************************************************************)
(* The earliest scheduled event select_timeout may wake for: the least of  *)
(* the candidate deadlines that apply in the state.                        *)
(***************************************************************************)
Candidates(si) ==
  {si.now + DAY} \cup
  {si.clients[i].activity + si.Timeout : i \in 1..Len(si.clients)} \cup
  (IF si.browse.Browsing /\ si.browse.slp THEN {si.browse.BrowseSLPRefresh} ELSE {}) \cup
  (IF si.browse.Browsing /\ si.browse.cups
     THEN {si.printers[i].browse_time + si.browse.BrowseTimeout :
             i \in {k \in 1..Len(si.printers) :
                      si.printers[k].remote /\ si.printers[k].browse_cups}} \cup
          {si.printers[i].browse_time + si.browse.BrowseInterval :
             i \in {k \in 1..Len(si.printers) :
                      /\ ~si.printers[k].remote /\ ~si.printers[k].implicit
                      /\ si.browse.BrowseInterval # 0}}
     ELSE {}) \cup
  (IF \E i \in 1..Len(si.jobs) : si.jobs[i] <= IPP_JOB_PROCESSING
     THEN {si.now + JOB_POLL} ELSE {}) \cup
  (IF si.mallinfo.on THEN {si.mallinfo.mallinfo_time + MALLINFO_POLL} ELSE {}) \cup
  (IF si.cert.RootCertDuration # 0
     THEN {si.cert.RootCertTime + si.cert.RootCertDuration} ELSE {})

Earliest(si) == CHOOSE m \in Candidates(si) : \A c \in Candidates(si) : m <= c

(***************************************************************************)
(* C5 (as amended): select_timeout returns 0 when some client has          *)
(* buffered data; otherwise the value is >= 1, <= 86400 and                *)
(* <= max(1, earliest scheduled event - now + 1).                          *)
(***************************************************************************)
C5_TimeoutRange ==
  tout # -1 =>
    IF HasBuffered(tin.clients)
      THEN tout = 0
      ELSE /\ tout >= 1 /\ tout <= DAY
           /\ tout <= Max(1, Earliest(tin) - tin.now + 1)

\* a call with no buffered data and an event that is already overdue
C5_Witness ==
  /\ tout = 1 /\ ~HasBuffered(tin.clients) /\ tin.fds = 0 /\ tin.NotifyPost = 0
  /\ Len(tin.clients) = 1 /\ Earliest(tin) < tin.now

\* C5 as stated: always >= 1, <= 86400 and <= earliest event - now + 1
C5_AlwaysPositive ==
  tout # -1 =>
    /\ tout >= 1 /\ tout <= DAY
    /\ tout <= Earliest(tin) - tin.now + 1

(***************************************************************************)
(* C4: the loop never enters select while a signal latch set before the    *)
(* call is unprocessed: at the step from line 596 into the select of line  *)
(* 599 neither dead_children nor stop_scheduler is set.                    *)
(***************************************************************************)
C4_LatchesDrained ==
  [][(mpc = "timeout" /\ mpc' = "select")
       => (sch'.dead_children = 0 /\ sch'.stop_scheduler = 0)]_vars

(***************************************************************************)
(* C6: the number of slots of a job with procs[i] > 0 never increases,     *)
(* each reaped child of the job lowers it by exactly one, and a job whose  *)
(* count is 0 is not Processing any more when the loop starts its next     *)
(* iteration.                                                              *)
(***************************************************************************)
LiveSlots(job) == Cardinality({i \in 1..Len(job.procs) : job.procs[i] > 0})

ReapedNow(p) == kids[p] = "zombie" /\ kids'[p] = "reaped"

C6_SlotsDrain ==
  /\ [][\A j \in 1..Len(Jobs) :
          /\ LiveSlots(Jobs'[j]) <= LiveSlots(Jobs[j])
          /\ \A p \in DOMAIN kids :
               (ReapedNow(p) /\ \E i \in 1..Len(Jobs[j].procs) : Jobs[j].procs[i] = p)
                 => LiveSlots(Jobs'[j]) = LiveSlots(Jobs[j]) - 1]_vars
  /\ [](mpc = "while" =>
          \A j \in 1..Len(Jobs) :
            Jobs[j].state = IPP_JOB_PROCESSING => LiveSlots(Jobs[j]) > 0)

\* a job whose whole pipeline was reaped and that has reached a terminal state
C6_Witness ==
  \E j \in 1..Len(Jobs) :
    /\ Len(Jobs[j].procs) > 1 /\ LiveSlots(Jobs[j]) = 0
    /\ Jobs[j].state \in {IPP_JOB_STOPPED, IPP_JOB_ABORTED, IPP_JOB_COMPLETED}

(***************************************************************************)
(* C7 (as amended): when the reaper sets the disposition of a job that had *)
(* none, the value is the status word of waitpid (exit code * 256, or      *)
(* the signal number), negated for the last slot and as it is for any      *)
(* other slot; a child ended by SIGTERM sets none.                         *)
(***************************************************************************)
FailureWords == {WaitStatus(e) : e \in Endings} \ {0, SIGTERM}

C7_RawWaitStatus ==
  [][\A p \in DOMAIN kids : \A j \in 1..Len(Jobs) : \A i \in 1..Len(Jobs[j].procs) :
       (ReapedNow(p) /\ Jobs[j].procs[i] = p /\ Jobs[j].status = 0
          /\ Jobs'[j].status # 0)
         => IF i = Len(Jobs[j].procs)
              THEN -Jobs'[j].status \in FailureWords
              ELSE Jobs'[j].status \in FailureWords]_vars

\* the backend (last slot) exited with code 2 and set the disposition
C7_Witness ==
  \E j \in 1..Len(Jobs) :
    /\ Jobs[j].status = -(2 * 256)
    /\ Jobs[j].procs[Len(Jobs[j].procs)] < 0

\* C7 as stated: the recorded value is the exit status itself (2 gives -2)
ExitNumbers == {e.n : e \in Endings} \ {0}

C7_ExitCodeRecorded ==
  [][\A p \in DOMAIN kids : \A j \in 1..Len(Jobs) : \A i \in 1..Len(Jobs[j].procs) :
       (ReapedNow(p) /\ Jobs[j].procs[i] = p /\ Jobs[j].status = 0
          /\ Jobs'[j].status # 0)
         => IF i = Len(Jobs[j].procs)
              THEN -Jobs'[j].status \in ExitNumbers
              ELSE Jobs'[j].status \in ExitNumbers]_vars

(***************************************************************************)
(* C8 (as amended): a negative disposition (the backend failed) is never   *)
(* changed by a later child exit; a positive one (a filter failed) may be  *)
(* replaced by the status of a child reaped later.                         *)
(***************************************************************************)
C8_NegativeIsFinal ==
  [][\A j \in 1..Len(Jobs) :
       Jobs[j].status < 0 => Jobs'[j].status = Jobs[j].status]_vars

\* a backend failure on record after the whole pipeline was reaped
C8_Witness ==
  \E j \in 1..Len(Jobs) :
    /\ Len(Jobs[j].procs) > 1 /\ LiveSlots(Jobs[j]) = 0
    /\ Jobs[j].status < 0

\* C8 as stated: once non-zero the disposition never changes
C8_SetOnce ==
  [][\A j \in 1..Len(Jobs) :
       Jobs[j].status # 0 => Jobs'[j].status = Jobs[j].status]_vars

(***************************************************************************)
(* C9 (as amended): ReadConfiguration is called only at a reload check at  *)
(* which no clients remain and either no job is Processing or the pending  *)
(* reload is not a full one (NeedReload is not RELOAD_ALL), or at which    *)
(* ReloadTimeout seconds have passed since the reload was asked for.       *)
(***************************************************************************)
ReloadCalled == mpc = "reload" /\ mpc' = "readconf"

HupUnderLoad == sch.NeedReload = RELOAD_ALL /\ Len(Clients) > 0 /\ JobProcessing(Jobs)

ReloadCheck == mpc = "reload" /\ mpc' # "reload" /\ sch.NeedReload # RELOAD_NONE

C10_ReloadUnlessStopped ==
  /\ HupUnderLoad ~> (mpc = "readconf" \/ mpc = "stopped")
  /\ [][ReloadCheck =>
          /\ \A i \in 1..Len(Clients') :
               Clients'[i].state # "WAITING" /\ ~Clients'[i].keep_alive
          /\ Len(Clients') = Cardinality({i \in 1..Len(Clients) : Clients[i].state # "WAITING"})
          /\ Len(Clients) > 0 => sch'.paused
          /\ ((Clients' = <<>> /\ ~JobProcessing(Jobs))
                \/ now - sch.ReloadTime >= ReloadTimeout) => mpc' = "readconf"]_vars

\* the reload after a HUP, called once the clients were gone and the job done
C10_Witness ==
  /\ mpc = "readconf" /\ sch.NeedReload = RELOAD_ALL /\ sch.paused
  /\ Clients = <<>> /\ ~JobProcessing(Jobs) /\ now - sch.ReloadTime < ReloadTimeout

\* C10 as stated: the reload eventually fires
C10_ReloadFires == HupUnderLoad ~> (mpc = "readconf")

(***************************************************************************)
(* C11: main returns 0 exactly when the loop ended through a normal stop   *)
(* (the test of line 515 found stop_scheduler set) and 1 when it ended     *)
(* through a failed reload (line 576) or a select error (line 613),        *)
(* whenever the signals arrive.                                            *)
(***************************************************************************)
C11_ExitCodeTellsCause ==
  [][/\ (mpc = "while" /\ mpc' = "stopped") => sch'.retcode = 0
     /\ (mpc \in {"readconf", "select"} /\ mpc' = "stopped") => sch'.retcode = 1]_vars

(***************************************************************************)
(* C12 (as amended): as long as ReleaseSignals was never called while      *)
(* holdcount was 0, holdcount is >= 0 and SIGTERM and SIGCHLD are blocked  *)
(* exactly while it is greater than 0, so that no handler runs between a   *)
(* HoldSignals and its matching ReleaseSignals.                            *)
(***************************************************************************)
C12_BlockedWhileHeld ==
  /\ [](~hold.unmatched =>
          hold.holdcount >= 0 /\ (hold.blocked <=> hold.holdcount > 0))
  /\ [][(~hold.unmatched /\ hold.holdcount > 0 /\ hold'.holdcount > 0) =>
          /\ hold'.dead_children = hold.dead_children
          /\ hold'.stop_scheduler = hold.stop_scheduler]_vars

\* a nested hold with a signal waiting for the release
C12_Witness ==
  /\ ~hold.unmatched /\ hold.holdcount = 2 /\ hold.blocked
  /\ hold.pending # {} /\ hold.stop_scheduler = 0

\* C12 as stated: for every sequence of calls
C12_NeverNegative ==
  hold.holdcount >= 0 /\ (hold.blocked <=> hold.holdcount > 0)

SideStopped == w.have_sidechannel => (g.sidechannel_thread_stop = 1 /\ ~env.scOpen)

C14_ShutdownOrder ==
  [][/\ (g.sidechannel_thread_stop = 0 /\ g'.sidechannel_thread_stop = 1)
          => (~env.scOpen /\ w.pc = "sd_sidestop")
     /\ (env.scOpen /\ ~env'.scOpen /\ w.pc = "sd_close")
          => (g'.readwrite_lock = 0 /\ g.sidechannel_thread_stop = 0
              /\ g.read_thread_stop = 0)
     /\ (g.read_thread_stop = 0 /\ g'.read_thread_stop = 1)
          => (SideStopped /\ w.pc = "sd_readstop")
     /\ (w.pc # "sd_readwait1" /\ w'.pc = "sd_readwait1")
          => (w.pc = "sd_readwait" /\ g.read_thread_stop = 1
              /\ g.read_thread_done = 0 /\ g'.wait_eof = 0)
     /\ (w.pc = "close" /\ g.handle /\ ~g'.handle)
          => (SideStopped /\ g.read_thread_stop = 1)]_vars

\* the whole shutdown has run, the extra wait included, with a side channel
C14_Witness ==
  /\ w.pc = "done" /\ w.have_sidechannel /\ ~g.handle
  /\ g.sidechannel_thread_stop = 1 /\ g.read_thread_stop = 1
  /\ g.read_thread_done = 0 /\ g.sidechannel_thread_done = 0

(***************************************************************************)
(* C15: once the copy loop is over, print_device reaches close_device and  *)
(* returns, even if the read thread and the side-channel thread never set  *)
(* their done flags; the writer never ends another thread: no step of the  *)
(* writer moves the read thread or the side-channel thread.                *)
(***************************************************************************)
InShutdown ==
  w.pc \in {"sd_close", "sd_sidestop", "sd_sidewait", "sd_readstop",
            "sd_readwait", "sd_readwait1", "close"}

C15_ShutdownReturns ==
  /\ InShutdown ~> (w.pc = "done" /\ ~g.handle)
  /\ [][w' # w => (spc' = spc /\ rpc' = rpc)]_vars

\* print_device has returned with both other threads still running
C15_Witness ==
  /\ w.pc = "done" /\ ~g.handle
  /\ spc \notin {"none", "done"} /\ rpc # "done"
  /\ g.read_thread_done = 0 /\ g.sidechannel_thread_done = 0

(***************************************************************************)
(* C16: a soft reset that finds unsent residue leaves the writer with      *)
(* print_bytes = 0 for as long as the reset holds the I/O lock, no byte    *)
(* that was read from the job before the reset's flush reaches the device  *)
(* afterwards, and the OK response to SOFT_RESET is written only by the    *)
(* step after the lock release, with the device reset already issued.      *)
(***************************************************************************)
ResetReplies(e) == e.replies[<<"SOFT_RESET", "OK">>]

C16_ResetDropsResidue ==
  [][/\ (spc = "sr_flush" /\ spc' = "sr_reset") => g'.print_bytes = 0
     /\ spc' \in {"sr_reset", "sr_release"} =>
          g'.print_bytes = 0 /\ w'.pc \notin {"copy", "top", "check", "read", "write"}
     /\ \A i \in (Len(env.deviceOut) + 1)..Len(env'.deviceOut) :
          env'.deviceOut[i] > env.resetAt
     /\ (spc' = "sr_reply" /\ spc # "sr_reply") =>
          spc = "sr_release" /\ g'.readwrite_lock = 0
     /\ ResetReplies(env') # ResetReplies(env) =>
          spc = "sr_reply" /\ env.resets > ResetReplies(env)]_vars

\* residue was dropped by a reset, the reply is out, and the writer has sent later data
C16_Witness ==
  /\ env.dropped > 0 /\ ResetReplies(env) > 0
  /\ Len(env.deviceOut) > 0
  /\ env.deviceOut[Len(env.deviceOut)] > env.resetAt

(***************************************************************************)
(* C18: the DRAIN_OUTPUT response is written only by the writer's check    *)
(* after select, with the drain flag set, print_bytes = 0 and nfds = 0;    *)
(* the same step clears the flag, and the flag is set again only by a      *)
(* DRAIN_OUTPUT command, so each setting is answered at most once.         *)
(***************************************************************************)
DrainReplies(e) == e.replies[<<"DRAIN_OUTPUT", "OK">>]

C18_DrainReplyOnlyWhenIdle ==
  [][/\ DrainReplies(env') # DrainReplies(env) =>
          /\ w.pc = "check" /\ w'.pc = "read"
          /\ g.drain_output # 0 /\ g.print_bytes = 0 /\ w.nfds = 0
          /\ g'.drain_output = 0
          /\ DrainReplies(env') = DrainReplies(env) + 1
     /\ (g.drain_output = 0 /\ g'.drain_output # 0) =>
          spc = "idle" /\ env'.cmds = env.cmds + 1
     /\ (g.drain_output # 0 /\ g'.drain_output = 0) =>
          DrainReplies(env') = DrainReplies(env) + 1]_vars

\* a drain was answered after the writer had sent job data, and a second one is pending
C18_Witness ==
  /\ DrainReplies(env) = 1 /\ g.drain_output # 0
  /\ Len(env.deviceOut) > 0

(***************************************************************************)
(* C17: every DRAIN_OUTPUT command is eventually answered: whenever the    *)
(* drain flag is set, a further DRAIN_OUTPUT response is written later.    *)
(* The writer leaves the copy loop at end of file (line 391) without       *)
(* looking at the flag again, so the formula does not hold.                *)
(***************************************************************************)
C17_DrainAnswered ==
  \A n \in 0..MaxCmds :
    (g.drain_output # 0 /\ DrainReplies(env) = n) ~> (DrainReplies(env) > n)

(***************************************************************************)
(* C19: the GET_DEVICE_ID response has status IO_ERROR and no data when    *)
(* get_device_id failed, status OK and the device ID when it succeeded.    *)
(* The response written at line 1475 always has status OK.                 *)
(***************************************************************************)
C19_DeviceIdReplyStatus ==
  env.lastId.status # "none" =>
    IF env.lastId.ret # 0
      THEN env.lastId.status = "IO_ERROR" /\ env.lastId.datalen = 0
      ELSE env.lastId.status = "OK" /\ env.lastId.datalen = MinIdLen

(***************************************************************************)
(* C20 as stated: a bulk-out TIMEOUT, on the first attempt or on the       *)
(* retry, leaves the job status OK and the loop running, and the writer    *)
(* counts just the bytes that transfer reported.                           *)
(***************************************************************************)
TimeoutIgnored ==
  /\ w'.status = CUPS_BACKEND_OK /\ w'.pc = "top"
  /\ w'.total_bytes = w.total_bytes + w'.xfer.bytes
  /\ g'.print_bytes = g.print_bytes - w'.xfer.bytes

C20_EveryTimeoutIgnored ==
  [][(w.pc = "write" /\ "TIMEOUT" \in {w'.xfer.first, w'.xfer.retry})
       => TimeoutIgnored]_vars

(***************************************************************************)
(* C20 amended: a TIMEOUT of the first attempt is ignored as above; a      *)
(* TIMEOUT of the retry made after PIPE or INTERRUPTED is a write error:   *)
(* status FAILED, the loop is left and no byte of it is counted.           *)
(***************************************************************************)
C20_FirstTimeoutIgnored ==
  [][/\ (w.pc = "write" /\ w'.xfer.first = "TIMEOUT") =>
          TimeoutIgnored /\ w'.xfer.retry = "none"
     /\ (w.pc = "write" /\ w'.xfer.retry = "TIMEOUT") =>
          /\ w'.xfer.first \in {"PIPE", "INTERRUPTED"}
          /\ w'.status = CUPS_BACKEND_FAILED /\ w'.pc = "copy"
          /\ w'.total_bytes = w.total_bytes
          /\ g'.print_bytes = g.print_bytes]_vars

\* a first attempt timed out after moving part of the buffer and the loop goes on
C20_Witness ==
  /\ w.xfer.first = "TIMEOUT" /\ w.xfer.bytes > 0
  /\ w.pc = "top" /\ g.print_bytes > 0 /\ w.status = CUPS_BACKEND_OK

(***************************************************************************)
(* C21: a first bulk-out result of PIPE or INTERRUPTED is followed by      *)
(* exactly one retry and no other result is.  When the result that stands  *)
(* is a success the loop goes on with exactly the delivered bytes counted; *)
(* when it is a failure the status becomes FAILED, the writer delivers     *)
(* nothing more and returns FAILED only through the normal shutdown.       *)
(***************************************************************************)
XferFailed(x) ==
  IF x.retry # "none" THEN x.retry # "OK" ELSE x.first \notin {"OK", "TIMEOUT"}

C21_RetryOnce ==
  /\ [][(w.pc = "write" /\ w'.xfer.first # "none") =>
          /\ (w'.xfer.retry # "none") <=> (w'.xfer.first \in {"PIPE", "INTERRUPTED"})
          /\ IF XferFailed(w'.xfer)
               THEN /\ w'.status = CUPS_BACKEND_FAILED /\ w'.pc = "copy"
                    /\ w'.total_bytes = w.total_bytes
               ELSE /\ w'.status = CUPS_BACKEND_OK /\ w'.pc = "top"
                    /\ w'.total_bytes = w.total_bytes + w'.xfer.bytes
                    /\ g'.print_bytes = g.print_bytes - w'.xfer.bytes
                    /\ Len(env'.deviceOut) = Len(env.deviceOut) + w'.xfer.bytes]_vars
  /\ [][w.status = CUPS_BACKEND_FAILED =>
          /\ env'.deviceOut = env.deviceOut
          /\ w'.status = CUPS_BACKEND_FAILED]_vars
  /\ [](w.status = CUPS_BACKEND_FAILED =>
          /\ w.pc \notin {"top", "select", "reacq", "check", "read", "write"}
          /\ w.pc = "done" =>
                /\ w.retval = CUPS_BACKEND_FAILED
                /\ g.read_thread_stop = 1 /\ ~g.handle)

\* a stalled transfer was retried with success and the whole job is delivered
C21_Witness ==
  /\ w.xfer.first \in {"PIPE", "INTERRUPTED"} /\ w.xfer.retry = "OK"
  /\ w.pc = "top" /\ w.status = CUPS_BACKEND_OK /\ g.print_bytes = 0
  /\ env.readCount = env.jobLen /\ Len(env.deviceOut) = env.readCount
  /\ env.jobLen > 0

(***************************************************************************)
(* C22: the reader goes round its loop, whatever a transfer returned, as   *)
(* long as wait_eof is set or read_thread_stop is clear; it starts a       *)
(* transfer only from such a state, so at most the transfer it was about   *)
(* to start runs after the stop flag is set; with the stop flag set and    *)
(* wait_eof clear it leaves the loop at its next test, sets                *)
(* read_thread_done, and the flag then stays set for the coordinator.      *)
(***************************************************************************)
ReaderStopped == g.read_thread_stop = 1 /\ g.wait_eof = 0

C22_ReaderExitsOnStop ==
  /\ [][/\ (rpc = "xfer" /\ rpc' # rpc) => rpc' = "loopcheck"
        /\ (rpc = "loopcheck" /\ rpc' = "xfer") => ~ReaderStopped
        /\ (rpc = "loopcheck" /\ rpc' = "exit") => ReaderStopped
        /\ (rpc' = "xfer" /\ rpc # "xfer") => rpc = "loopcheck"
        /\ ReaderStopped => ReaderStopped'
        /\ g'.read_thread_done # g.read_thread_done =>
             rpc = "exit" /\ rpc' = "done" /\ g'.read_thread_done = 1]_vars
  /\ (ReaderStopped ~> g.read_thread_done = 1)

\* the reader has exited on the stop flag while the coordinator is in its 7 second wait
C22_Witness ==
  /\ rpc = "done" /\ g.read_thread_done = 1 /\ ReaderStopped
  /\ w.pc = "sd_readwait"

(***************************************************************************)
(* C23 as stated: the idle loop sleeps RootCertDuration seconds after a    *)
(* rotation, and the hour holds one rotation per RootCertDuration          *)
(* interval (12 for 300 s).                                                *)
(***************************************************************************)
HourOver ==
  idle.now = idle.start + Hour /\ idle.pc = "select" /\ idle.now < idle.wake

C23_OneRotationPerInterval ==
  /\ (idle.pc = "select" /\ idle.rotations > 0) =>
        idle.wake = idle.RootCertTime + RootCertDuration
  /\ HourOver => idle.rotations = Hour \div RootCertDuration

(***************************************************************************)
(* C23 amended: the idle loop sleeps until RootCertDuration + 1 seconds    *)
(* after the certificate was made and rotates it at each wake-up, so       *)
(* rotations are RootCertDuration + 1 seconds apart and the hour holds     *)
(* one per RootCertDuration + 1 seconds (11 for 300 s).                    *)
(***************************************************************************)
C23_RotationEveryDurationPlusOne ==
  /\ idle.pc = "select" => idle.wake = idle.RootCertTime + RootCertDuration + 1
  /\ idle.RootCertTime = idle.cert0 + idle.rotations * (RootCertDuration + 1)
  /\ idle.now - idle.RootCertTime <= RootCertDuration + 1
  /\ HourOver => idle.rotations = (idle.now - idle.cert0) \div (RootCertDuration + 1)

\* the hour is over and the certificate was rotated at every wake-up
C23_Witness == HourOver /\ idle.rotations > 1 /\ idle.cert0 = idle.start

(***************************************************************************)
(* C24 as stated: for every payload of 12 bytes or more that fits the      *)
(* buffer, the parse of the reply built from it returns the payload,       *)
(* with the length prefix in either byte order.                            *)
(***************************************************************************)
C24_RoundTrip ==
  did.pc = "parsed" => did.ret = 0 /\ CString(did.buffer) = Payload(did.n)

(***************************************************************************)
(* C24 amended: the round trip holds for a big-endian prefix, and for a    *)
(* little-endian prefix whose two bytes read big-endian give a length      *)
(* above the buffer size or below 14.  Any other little-endian prefix is   *)
(* taken big-endian: the parse succeeds with that many bytes of the        *)
(* buffer less 2, not with the payload's length.                           *)
(***************************************************************************)
Swapped(len) == (len % 256) * 256 + len \div 256

Ambiguous(len) == Swapped(len) >= MinIdReply /\ Swapped(len) <= IdBufSize

C24_RoundTripUnlessAmbiguous ==
  did.pc = "parsed" =>
    /\ did.ret = 0
    /\ (did.endian = "BE" \/ ~Ambiguous(did.n + 2)) =>
          CString(did.buffer) = Payload(did.n)
    /\ (did.endian = "LE" /\ Ambiguous(did.n + 2)) =>
          /\ did.buffer[Swapped(did.n + 2) - 1] = 0
          /\ StrLen(did.buffer) <= Swapped(did.n + 2) - 2
          /\ Swapped(did.n + 2) < did.n + 2 => CString(did.buffer) # Payload(did.n)

\* a little-endian reply of 256 bytes or more was parsed back to its payload
C24_Witness ==
  /\ did.pc = "parsed" /\ did.endian = "LE" /\ did.n + 2 >= 256
  /\ did.ret = 0 /\ CString(did.buffer) = Payload(did.n)

(***************************************************************************)
(* C25: an alternate setting without a bulk host-to-device endpoint is     *)
(* never the saved match, and a device is opened or offered to the         *)
(* callback only when a supported alternate setting has such an endpoint.  *)
(* write_endp is a uint8_t, so the test of line 752 passes with -1 (255).  *)
(***************************************************************************)
HasWrite(a) == \E i \in 1..Len(a.endpoint) : a.endpoint[i] = "bulk_out"

Supported(a) == a.printer /\ a.protocol \in {1, 2}

C25_NoWriteEndpointRejected ==
  /\ fnd.protocol > 0 => HasWrite(fnd.altsetting[fnd.printer.altset + 1])
  /\ (fnd.printer.handle \/ fnd.offered) =>
        \E i \in 1..Len(fnd.altsetting) :
          Supported(fnd.altsetting[i]) /\ HasWrite(fnd.altsetting[i])

(***************************************************************************)
(* C26 as stated: the saved read_endp and write_endp are the indexes of    *)
(* the first bulk endpoint of each direction in the chosen alternate       *)
(* setting.                                                                *)
(***************************************************************************)
IndexesOf(eps, kind) == {i - 1 : i \in {j \in 1..Len(eps) : eps[j] = kind}}

FirstOf(eps, kind) ==
  IF IndexesOf(eps, kind) = {} THEN U8(-1)
  ELSE CHOOSE i \in IndexesOf(eps, kind) : \A j \in IndexesOf(eps, kind) : i <= j

LastOf(eps, kind) ==
  IF IndexesOf(eps, kind) = {} THEN U8(-1)
  ELSE CHOOSE i \in IndexesOf(eps, kind) : \A j \in IndexesOf(eps, kind) : i >= j

Saved == fnd.protocol > 0 /\ fnd.pc \in {"scan", "o_open"}

ChosenEndpoints == fnd.altsetting[fnd.printer.altset + 1].endpoint

C26_FirstBulkEndpoints ==
  Saved =>
    /\ fnd.printer.read_endp = FirstOf(ChosenEndpoints, "bulk_in")
    /\ fnd.printer.write_endp = FirstOf(ChosenEndpoints, "bulk_out")

(***************************************************************************)
(* C26 amended: the saved read_endp and write_endp are the indexes of the  *)
(* last bulk endpoint of each direction in the chosen alternate setting,   *)
(* 255 for a direction that has none.                                      *)
(***************************************************************************)
C26_LastBulkEndpoints ==
  Saved =>
    /\ fnd.printer.read_endp = LastOf(ChosenEndpoints, "bulk_in")
    /\ fnd.printer.write_endp = LastOf(ChosenEndpoints, "bulk_out")

\* the chosen alternate setting has two bulk endpoints to the device and one from it
C26_Witness ==
  /\ Saved /\ fnd.pc = "o_open"
  /\ ChosenEndpoints = <<"bulk_out", "bulk_in", "bulk_out">>
  /\ fnd.printer.write_endp = 2 /\ fnd.printer.read_endp = 1

(***************************************************************************)
(* C27: while open_device runs past libusb_open the handle is open; a      *)
(* failure of the probe, the detach, the claim or the alternate setting    *)
(* leads through the error exit, which closes the handle, sets it to NULL  *)
(* and returns -1; a return of 0 leaves the handle open and the interface  *)
(* claimed.                                                                *)
(***************************************************************************)
C27_OpenFailureClosesHandle ==
  /\ [](fnd.pc \in {"o_probe", "o_detach", "o_claim", "o_altset", "o_done", "o_error"}
          => fnd.printer.handle)
  /\ [](fnd.pc = "opened" =>
          IF fnd.ret = 0 THEN fnd.printer.handle /\ fnd.claimed
                         ELSE fnd.ret = -1 /\ ~fnd.printer.handle /\ ~fnd.claimed)
  /\ [][fnd.pc = "o_error" =>
          fnd'.pc = "opened" /\ fnd'.ret = -1 /\ ~fnd'.printer.handle]_vars
  /\ [][(fnd.pc \in {"o_probe", "o_detach", "o_claim", "o_altset"}
           /\ fnd'.pc = "o_done") => fnd'.claimed]_vars

\* open_device has failed after the kernel driver was found attached
C27_Witness ==
  /\ fnd.pc = "opened" /\ fnd.ret = -1
  /\ fnd.printer.usblp_attached = 1 /\ ~fnd.printer.handle

(***************************************************************************)
(* C28: no bulk-in transfer of the read thread, and no device reset or     *)
(* device ID control transfer of the side-channel thread, is issued on     *)
(* the printer handle after close_device has closed it.                    *)
(***************************************************************************)
ReaderTransfer == rpc = "xfer" /\ rpc' = "loopcheck"

SideReset == spc = "sr_reset" /\ spc' = "sr_release"

SideDeviceId == spc = "idle" /\ env'.lastId # NoId

C28_NoUseAfterClose ==
  [][(ReaderTransfer \/ SideReset \/ SideDeviceId) => g.handle]_vars

(***************************************************************************)
(* C29: every bulk-out transfer that delivers bytes starts at the first    *)
(* byte of the buffer not yet written (offset print_ptr), so that the      *)
(* bytes delivered since the buffer was read are a prefix of the buffer.   *)
(***************************************************************************)
Delivered(e1, e2) == SubSeq(e2.deviceOut, Len(e1.deviceOut) + 1, Len(e2.deviceOut))

C29_ResumesAtOffset ==
  [][(w.pc = "write" /\ Len(env'.deviceOut) > Len(env.deviceOut)) =>
        Delivered(env, env') =
          SubSeq(w.print_buffer, w.print_ptr + 1,
                 w.print_ptr + Len(Delivered(env, env')))]_vars

(***************************************************************************)
(* C30 as stated: if the writer keeps returning to its select, every       *)
(* SOFT_RESET the side-channel thread has received is served: the thread   *)
(* gets the I/O lock, resets the device and writes the response.           *)
(***************************************************************************)
C30_ResetServed ==
  ([]<>(w.pc = "select")) => ((spc = "sr_wait") ~> (spc = "loopcheck"))

(***************************************************************************)
(* C30 amended: a waiting reset is not left waiting on a lock that stays   *)
(* free, and once it has the lock it resets the device and frees the lock  *)
(* again, with only the response left to write.                            *)
(***************************************************************************)
C30_ResetServedOnceLocked ==
  /\ (spc = "sr_wait") ~> (spc # "sr_wait" \/ g.readwrite_lock = 1)
  /\ (spc = "sr_flush") ~> (spc = "sr_reply" /\ g.readwrite_lock = 0)

\* the reset holds the I/O lock, the device reset done, while the writer waits for it
C30_Witness ==
  /\ spc = "sr_release" /\ g.readwrite_lock = 1
  /\ w.pc = "reacq"

(***************************************************************************)
(* C31: no exited child is lost: a child that has exited and has not been  *)
(* reaped is either within reach of the running process_children pass      *)
(* (its waitpid loop has not yet returned 0) or dead_children is set, so   *)
(* that the next pass of the loop reaps it.                                *)
(***************************************************************************)
C31_NoChildLost ==
  \A p \in DOMAIN kids :
    kids[p] = "zombie" => (sch.dead_children # 0 \/ mpc = "wait")

\* a child exited after the pass had reaped another one and returned
C31_Witness ==
  /\ mpc = "reload" /\ sch.dead_children = 1
  /\ \E p, q \in DOMAIN kids : kids[p] = "zombie" /\ kids[q] = "reaped"

(***************************************************************************)
(* C36: with no buffered client data, no ready fd from the previous wait,  *)
(* at most 50 clients and no pending notification, select_timeout returns  *)
(* max(1, min(86400, deadline - now + 1)) for the earliest candidate       *)
(* deadline; and at the time the wait ends, a client whose idle deadline   *)
(* was that earliest deadline is past its Timeout, and a root certificate  *)
(* whose rotation was that deadline is due.                                *)
(***************************************************************************)
Unhurried(si) ==
  /\ ~HasBuffered(si.clients) /\ si.fds = 0
  /\ Len(si.clients) <= MANY_CLIENTS /\ si.NotifyPost = 0

\* the deadline that set the timeout lies within the day select_timeout looks ahead
Decisive(si, t) == t = Earliest(si) /\ t < si.now + DAY

C36_DeadlinePlusOne ==
  (tout # -1 /\ Unhurried(tin)) =>
    /\ tout = Max(1, Min(DAY, Earliest(tin) - tin.now + 1))
    /\ \A i \in 1..Len(tin.clients) :
         Decisive(tin, tin.clients[i].activity + tin.Timeout) =>
           tin.clients[i].activity < (tin.now + tout) - tin.Timeout
    /\ (tin.cert.RootCertDuration # 0
          /\ Decisive(tin, tin.cert.RootCertTime + tin.cert.RootCertDuration)) =>
           (tin.now + tout) - tin.cert.RootCertTime >= tin.cert.RootCertDuration

\* a call whose timeout was set by the idle deadline of the only client
C36_Witness ==
  /\ tout = 291 /\ Unhurried(tin) /\ Len(tin.clients) = 1
  /\ Decisive(tin, tin.clients[1].activity + tin.Timeout)

(***************************************************************************)
(* C37 as stated: when every other deadline is more than 10 seconds away,  *)
(* the timeout is the 10 seconds of the job poll (plus 1) if and only if   *)
(* some job is Pending or Processing.                                      *)
(***************************************************************************)
JobPollOnly(si) ==
  Unhurried(si) /\ Deadline([si EXCEPT !.jobs = <<>>]) > si.now + JOB_POLL

C37_PendingOrProcessing ==
  (tout # -1 /\ JobPollOnly(tin)) =>
    (tout = JOB_POLL + 1 <=>
       \E i \in 1..Len(tin.jobs) : tin.jobs[i] \in {IPP_JOB_PENDING, IPP_JOB_PROCESSING})

(***************************************************************************)
(* C37 amended: the 10 second job poll applies if and only if some job is  *)
(* Pending, Held or Processing (state <= IPP_JOB_PROCESSING).              *)
(***************************************************************************)
C37_PendingHeldOrProcessing ==
  (tout # -1 /\ JobPollOnly(tin)) =>
    (tout = JOB_POLL + 1 <=>
       \E i \in 1..Len(tin.jobs) :
         tin.jobs[i] \in {IPP_JOB_PENDING, IPP_JOB_HELD, IPP_JOB_PROCESSING})

\* the job poll set the timeout with a held job as the only job
C37_Witness ==
  /\ tout = JOB_POLL + 1 /\ JobPollOnly(tin) /\ tin.jobs = <<IPP_JOB_HELD>>

(***************************************************************************)
(* C32: within one iteration the functions called for a client come in     *)
(* the order ReadClient, WriteClient, CloseClient (the idle close), each    *)
(* at most once; a client that is writable once its read step is over      *)
(* (its fd set in output, and no filter or file_ready) has WriteClient      *)
(* called in the same iteration; and after a ReadClient or WriteClient     *)
(* that closed the client no later step is run for it.                     *)
(***************************************************************************)
CallRank(c) == CASE c = "ReadClient" -> 1 [] c = "WriteClient" -> 2 [] c = "CloseClient" -> 3

ClosedByCall ==
  /\ ~pas.con.open /\ pas.calls # <<>>
  /\ pas.calls[Len(pas.calls)] \in {"ReadClient", "WriteClient"}

C32_ReadWriteIdleOrder ==
  /\ [](pas.pc # "off" =>
          \A i, j \in 1..Len(pas.calls) :
            i < j => CallRank(pas.calls[i]) < CallRank(pas.calls[j]))
  /\ []((pas.pc = "idle" /\ Writable(pas.con)) =>
          pas.calls[Len(pas.calls)] = "WriteClient")
  /\ [][(pas.pc = "write" /\ Writable(pas.con)) =>
          pas'.calls = Append(pas.calls, "WriteClient")]_vars
  /\ [][(pas.pc # "off" /\ ~pas.con.open) =>
          (pas'.con = pas.con /\ pas'.calls = pas.calls)]_vars
  /\ [](ClosedByCall => pas.pc \in {"job", "end"})

\* the read completed and the write was made in the same iteration
C32_Witness ==
  /\ pas.pc = "idle" /\ pas.calls = <<"ReadClient", "WriteClient">>
  /\ pas.con.open

(***************************************************************************)
(* C33: at the step for the filter's pipe, a filter with its pipe readable *)
(* gets file_ready set and its pipe is taken out of InputSet exactly when  *)
(* the client's fd is not set in output; otherwise the step changes        *)
(* nothing; and WriteClient is called only with the client's fd set in     *)
(* output and (no filter or file_ready set).                               *)
(***************************************************************************)
C33_FileReadyBackpressure ==
  /\ [][pas.pc = "file" =>
          IF pas.con.pipe_pid # 0 /\ pas.con.fileIn
            THEN /\ pas'.con.file_ready = 1
                 /\ pas'.con.fileInSet = (pas.con.fileInSet /\ pas.con.out)
            ELSE pas'.con = pas.con]_vars
  /\ [][(pas.pc # "off" /\ pas'.calls # pas.calls
           /\ pas'.calls[Len(pas'.calls)] = "WriteClient") =>
          (pas.con.out /\ (pas.con.pipe_pid = 0 \/ pas.con.file_ready # 0))]_vars

\* the pipe had data, the client was not writable: the pipe left InputSet, no write
C33_Witness ==
  /\ pas.pc = "idle" /\ pas.con.pipe_pid # 0 /\ pas.con.fileIn /\ ~pas.con.out
  /\ pas.con.file_ready = 1 /\ ~pas.con.fileInSet
  /\ pas.calls = <<>>

(***************************************************************************)
(* C34: in one iteration UpdateJob is called at most once for each status  *)
(* pipe descriptor, also when a job started by UpdateJob carries the       *)
(* descriptor of the job that just ended; the descriptor is taken out of   *)
(* the local input set by the step that calls UpdateJob.                   *)
(***************************************************************************)
C34_OneUpdatePerDescriptor ==
  /\ [](pas.pc # "off" => \A d \in PipeFds : pas.upd[d] <= 1)
  /\ [][(pas.pc # "off" /\ pas'.upd # pas.upd) =>
          \A d \in PipeFds : pas'.upd[d] # pas.upd[d] => (d \in pas.jin /\ d \notin pas'.jin)]_vars

\* a later job carries the descriptor of the job updated before it, and is skipped
C34_Witness ==
  /\ pas.pc = "end" /\ Len(pas.jobs) >= 2
  /\ pas.jobs[1] = -1 /\ pas.jobs[2] >= 0 /\ pas.upd[pas.jobs[2]] = 1

(***************************************************************************)
(* C35: the idle check closes the client if and only if now - activity is  *)
(* greater than Timeout and the client has no filter process.              *)
(***************************************************************************)
C35_IdleCloseRule ==
  [][pas.pc = "idle" =>
       ((~pas'.con.open /\ pas'.calls = Append(pas.calls, "CloseClient")) <=>
          (pas.now - pas.con.activity > Timeout /\ pas.con.pipe_pid = 0))]_vars

\* a client closed by the idle check
C35_Witness ==
  /\ ~pas.con.open /\ pas.calls # <<>> /\ pas.calls[Len(pas.calls)] = "CloseClient"
  /\ pas.now - pas.con.activity > Timeout /\ pas.con.pipe_pid = 0

(***************************************************************************)
(* C38: once sidechannel_thread_stop is set the side-channel thread, kept  *)
(* running, leaves its loop and sets sidechannel_thread_done, from a read  *)
(* as well as from soft_reset; and the thread leaves its loop only from a  *)
(* failed read or from the loop condition with the stop flag set, never    *)
(* from the loop condition reached after a timeout with the flag clear.    *)
(***************************************************************************)
C38_SideThreadStops ==
  /\ (g.sidechannel_thread_stop = 1) ~> (g.sidechannel_thread_done = 1)
  /\ [][(spc # "exit" /\ spc' = "exit") =>
          (spc = "idle" \/ (spc = "loopcheck" /\ g.sidechannel_thread_stop = 1))]_vars

\* the thread was asked to stop while it waited in soft_reset, and it has finished
C38_Witness ==
  /\ w.pc = "sd_sidewait" /\ g.sidechannel_thread_stop = 1
  /\ g.sidechannel_thread_done = 1 /\ env.resets > 0

(***************************************************************************)
(* C39: every step that closes the device handle after open_device has     *)
(* detached the kernel driver from the interface has attempted to attach   *)
(* the driver again, on the failure paths of open_device as well as in     *)
(* close_device.                                                           *)
(***************************************************************************)
C39_ReattachBeforeClose ==
  [][(fnd.open > 0 /\ fnd'.open < fnd.open /\ fnd.driver = "detached")
       => fnd'.driver = "reattach"]_vars

(***************************************************************************)
(* C40: find_device holds at most one open handle at a time.  No handle is *)
(* open when a candidate is about to be opened, a candidate the callback   *)
(* does not take is closed by that step, the search ends at the first      *)
(* candidate taken, whose handle is open, and when the list ends with no   *)
(* candidate taken no handle is open.                                      *)
(***************************************************************************)
C40_OneOpenHandle ==
  /\ [](fnd.pc # "off" => fnd.open \in {0, 1})
  /\ [](fnd.pc \in {"o_open", "next", "scan"} => fnd.open = 0)
  /\ [](fnd.pc = "found" => fnd.open = 1 /\ fnd.printer.handle)
  /\ [](fnd.pc = "none" => fnd.open = 0 /\ ~fnd.printer.handle)
  /\ [][fnd.pc = "found" => fnd' = fnd]_vars
  /\ [][(fnd.pc = "opened" /\ fnd.ret = 0 /\ fnd'.pc = "none")
          => fnd.open = 1 /\ fnd'.open = 0 /\ fnd'.rejected]_vars

\* the second interface is taken after the first was offered and closed
C40_Witness ==
  fnd.pc = "found" /\ fnd.left = 0 /\ fnd.rejected /\ fnd.open = 1

====
